---------------------------- MODULE Spec2Model ----------------------------
(***************************************************************************)
(* Model of the markdown-to-PDF renderer of search_news.py                 *)
(* (generate_weather_news_pdf_from_markdown and the helpers it calls).     *)
(*                                                                         *)
(* Text is a sequence of characters; a character is a one-element string   *)
(* ("a", " ", "[") or, for a character outside ASCII, the string naming    *)
(* its code point ("U+1F4DA").  Lengths are in units of 1/127000 point, so *)
(* that a millimetre (72/25.4 pt), a tenth of a point and a glyph advance  *)
(* of n/1000 em at an integer font size are all whole numbers.  Python's   *)
(* floats are modelled by this exact arithmetic.                           *)
(***************************************************************************)
EXTENDS Integers, Sequences, FiniteSets, TLC

VARIABLES
    pc,                  \* "loop": reading lines; "done": after c.save();
                         \* "aborted": left by an exception
    y,                   \* the cursor (baseline of the next draw)
    page,                \* number of c.showPage() calls so far
    in_sources_section,  \* the flag of line 429
    fill,                \* the canvas fill colour
    nlines,              \* number of input lines consumed
    cur,                 \* index in Lines of the line consumed last (0: none)
    block,               \* the branch of the loop body that handled it
    ops,                 \* what that branch did, in order
    y_in,                \* the cursor when that line was read
    page_in,             \* the page count when that line was read
    header,              \* what was drawn in the header bar, lines 392-417
    twin,                \* SpecTwice: a second render of the same input
    text,                \* SpecText: the string the helper is applied to;
                         \* SpecPost: the content; SpecHazards: the hazards
    out                  \* SpecText: what the helper did with it; SpecPost:
                         \* where post_to_discord is and what it has posted;
                         \* SpecHazards: what each build_stylish_pdf built

vars == <<pc, y, page, in_sources_section, fill, nlines, cur, block, ops, y_in,
          page_in, header, twin, text, out>>

renderVars == <<pc, y, page, in_sources_section, fill, nlines, cur, block, ops, y_in,
                page_in, header, twin>>

----------------------------------------------------------------------------
(* Units and sequences *)

pt == 127000

mm == 360000

Min(a, b) == IF a < b THEN a ELSE b

RECURSIVE Concat(_)
Concat(ss) == IF ss = <<>> THEN <<>> ELSE Head(ss) \o Concat(Tail(ss))

\* s repeated n times
Rep(s, n) ==
    SubSeq([i \in 1..(n * Len(s)) |-> s[((i - 1) % Len(s)) + 1]], 1, n * Len(s))

\* a link, "[t](/)"
LinkPiece == <<"[", "t", "]", "(", "/", ")">>

\* out before a helper is applied
Idle == [op |-> "none"]

\* Python's `needle in s`
Contains(s, needle) ==
    \E i \in 1..(Len(s) - Len(needle) + 1) :
        SubSeq(s, i, i + Len(needle) - 1) = needle

\* Python's s.startswith(prefix)
StartsWith(s, prefix) ==
    Len(s) >= Len(prefix) /\ SubSeq(s, 1, Len(prefix)) = prefix

\* the characters str.strip() removes and \s matches, among those modelled
IsSpace(ch) == ch = " "

\* s.strip(chars): s without its leading and trailing characters of chars
StripChars(s, chars) ==
    LET keep == {i \in 1..Len(s) : s[i] \notin chars}
    IN  IF keep = {} THEN <<>>
        ELSE SubSeq(s, CHOOSE i \in keep : \A j \in keep : i <= j,
                       CHOOSE i \in keep : \A j \in keep : j <= i)

\* s.strip()
strip(s) == StripChars(s, {" "})

\* s.strip("*")
strip_stars(s) == StripChars(s, {"*"})

----------------------------------------------------------------------------
(* is_emoji, lines 155-161 *)

ord(ch) ==
    CASE ch = "U+1F4DA" -> 128218    \* books
      [] ch = "U+1F30D" -> 127757    \* globe
      [] ch = "U+2600"  -> 9728      \* sun, first of the misc-symbols range
      [] ch = "U+27BF"  -> 10175     \* last of the dingbats range
      [] ch = "U+27C0"  -> 10176     \* first code point after the dingbats
      [] ch = "U+2B50"  -> 11088     \* star, outside the three ranges
      [] ch = "U+AE30"  -> 44592     \* a Hangul syllable
      [] ch = "U+2022"  -> 8226      \* the bullet of line 552
      [] OTHER          -> 97        \* ASCII: below every range

is_emoji_off_by_one(ch) ==
    LET cp == ord(ch)
    IN  \/ 127744 <= cp /\ cp <= 129791
        \/ 9728 < cp /\ cp <= 9983
        \/ 9984 <= cp /\ cp <= 10175

is_emoji(ch) ==
    LET cp == ord(ch)
    IN  \/ 127744 <= cp /\ cp <= 129791
        \/ 9728 <= cp /\ cp <= 9983
        \/ 9984 <= cp /\ cp <= 10175

----------------------------------------------------------------------------
(* pdfmetrics.stringWidth for the two registered TrueType fonts (lines     *)
(* 30-34): the sum of the glyph advances, in 1/1000 em, times the size.    *)
(* The advances are those of the font files; representative values.        *)

KOREAN_FONT_NAME == "NanumGothic"

EMOJI_FONT_NAME == "NotoEmoji"

GlyphAdvance(ch, font) ==
    IF font = EMOJI_FONT_NAME THEN 1240
    ELSE CASE ch = " "       -> 320
           [] ch = "U+AE30"  -> 940
           [] ch = "U+2B50"  -> 940
           [] ch = "U+27C0"  -> 940
           [] OTHER          -> 560

\* the glyphs of the two font files: NanumGothic.ttf has Latin, Hangul and
\* the bullet, NotoEmoji.ttf has the emoji and the star; neither has U+27C0
HasGlyph(ch, font) ==
    IF font = EMOJI_FONT_NAME
    THEN ch \in {"U+1F4DA", "U+1F30D", "U+2600", "U+27BF", "U+2B50"}
    ELSE ch \notin {"U+1F4DA", "U+1F30D", "U+2600", "U+27BF", "U+2B50", "U+27C0"}

\* the sum of the numbers f[lo], ..., f[hi]
RECURSIVE SumRange(_, _, _)
SumRange(f, lo, hi) ==
    IF lo > hi THEN 0
    ELSE IF lo = hi THEN f[lo]
    ELSE SumRange(f, lo, (lo + hi) \div 2) + SumRange(f, (lo + hi) \div 2 + 1, hi)

\* pdfmetrics.stringWidth(s, font, font_size): the glyph advances, summed
stringWidth(s, font, font_size) ==
    SumRange([i \in 1..Len(s) |-> GlyphAdvance(s[i], font) * font_size * 127],
             1, Len(s))

----------------------------------------------------------------------------
(* draw_segment_with_emoji, lines 163-194.  st is the loop's state: the    *)
(* cursor, the buffer of normal characters, the drawString calls made and  *)
(* the number of characters of the text the loop has gone through.         *)

DrawString(st, s, font, font_size) ==
    [st EXCEPT !.cursor_x = st.cursor_x + stringWidth(s, font, font_size),
               !.runs = Append(st.runs, [text |-> s, font |-> font,
                                         x |-> st.cursor_x,
                                         w |-> stringWidth(s, font, font_size)])]

FlushBuffer(st, text_font, font_size) ==
    IF st.buffer # <<>>
    THEN [DrawString(st, st.buffer, text_font, font_size) EXCEPT !.buffer = <<>>]
    ELSE st

\* an emoji that is drawn before the buffer is flushed
SegStep_emoji_first(st, ch, text_font, emoji_font, font_size) ==
    IF is_emoji(ch)
    THEN [FlushBuffer(DrawString(st, <<ch>>, emoji_font, font_size),
                      text_font, font_size) EXCEPT !.i = st.i + 1]
    ELSE [st EXCEPT !.buffer = Append(st.buffer, ch), !.i = st.i + 1]

\* the body of `for ch in text`, lines 175-187
SegStep(st, ch, text_font, emoji_font, font_size) ==
    IF is_emoji(ch)
    THEN [DrawString(FlushBuffer(st, text_font, font_size),
                     <<ch>>, emoji_font, font_size) EXCEPT !.i = st.i + 1]
    ELSE [st EXCEPT !.buffer = Append(st.buffer, ch), !.i = st.i + 1]

RECURSIVE SegLoop(_, _, _, _, _)
SegLoop(st, s, text_font, emoji_font, font_size) ==
    IF st.i >= Len(s) THEN st
    ELSE SegLoop(SegStep(st, s[st.i + 1], text_font, emoji_font, font_size),
                 s, text_font, emoji_font, font_size)

\* returns the drawString calls and the width advanced
draw_segment_with_emoji(x, s, text_font, emoji_font, font_size) ==
    LET st0 == [cursor_x |-> x, buffer |-> <<>>, runs |-> <<>>, i |-> 0]
        st  == FlushBuffer(SegLoop(st0, s, text_font, emoji_font, font_size),
                           text_font, font_size)
    IN  [runs |-> st.runs, width |-> st.cursor_x - x]

----------------------------------------------------------------------------
(* measure_text_width, lines 260-279.  st is the loop's state: the width   *)
(* so far, the buffer and the number of characters gone through.           *)

\* lines 268-270 and 276-277: `if buffer: width += stringWidth(buffer, ...)`
MeasureFlush(st, text_font, font_size) ==
    IF st.buffer # <<>>
    THEN [st EXCEPT !.width = st.width + stringWidth(st.buffer, text_font, font_size),
                    !.buffer = <<>>]
    ELSE st

\* the body of `for ch in text`, lines 266-274
MeasureStep(st, ch, text_font, emoji_font, font_size) ==
    IF is_emoji(ch)
    THEN [MeasureFlush(st, text_font, font_size)
             EXCEPT !.width = @ + stringWidth(<<ch>>, emoji_font, font_size),
                    !.i = st.i + 1]
    ELSE [st EXCEPT !.buffer = Append(st.buffer, ch), !.i = st.i + 1]

RECURSIVE MeasureLoop(_, _, _, _, _)
MeasureLoop(st, s, text_font, emoji_font, font_size) ==
    IF st.i >= Len(s) THEN st
    ELSE MeasureLoop(MeasureStep(st, s[st.i + 1], text_font, emoji_font, font_size),
                     s, text_font, emoji_font, font_size)

measure_text_width(s, text_font, emoji_font, font_size) ==
    MeasureFlush(MeasureLoop([width |-> 0, buffer |-> <<>>, i |-> 0], s,
                             text_font, emoji_font, font_size),
                 text_font, font_size).width

----------------------------------------------------------------------------
(* The link pattern \[([^\]]+)\]\(([^)]+)\) of lines 212, 546 and 557.     *)
(* Positions are Python's: start and end are 0-based, end exclusive, so    *)
(* line[a:b] is SubSeq(line, a + 1, b).                                    *)

Slice(line, a, b) == SubSeq(line, a + 1, b)

\* the least index >= from holding ch, or 0
FirstAt(line, from, ch) ==
    LET hits == {i \in from..Len(line) : line[i] = ch}
    IN  IF hits = {} THEN 0 ELSE CHOOSE i \in hits : \A j \in hits : i <= j

NoMatch == [found |-> FALSE]

\* the match of the pattern that starts at the 1-based index i, if any:
\* "[", one or more characters other than "]", "](", one or more characters
\* other than ")", ")"
LinkMatchAt(line, i) ==
    IF line[i] # "[" THEN NoMatch
    ELSE LET j == FirstAt(line, i + 1, "]")
         IN  IF j = 0 \/ j < i + 2 \/ j + 1 > Len(line) \/ line[j + 1] # "("
             THEN NoMatch
             ELSE LET k == FirstAt(line, j + 2, ")")
                  IN  IF k = 0 \/ k < j + 3 THEN NoMatch
                      ELSE [found |-> TRUE, start |-> i - 1, end |-> k,
                            title |-> SubSeq(line, i + 1, j - 1),
                            url   |-> SubSeq(line, j + 2, k - 1)]

\* pattern.search(line, from): the leftmost match at or after position from
LinkSearch(line, from) ==
    LET hits == {i \in (from + 1)..Len(line) : LinkMatchAt(line, i).found}
    IN  IF hits = {} THEN NoMatch
        ELSE LinkMatchAt(line, CHOOSE i \in hits : \A j \in hits : i <= j)

\* pattern.finditer(line): the successive non-overlapping matches
RECURSIVE LinkFindIter(_, _)
LinkFindIter(line, from) ==
    LET m == LinkSearch(line, from)
    IN  IF ~m.found THEN <<>> ELSE <<m>> \o LinkFindIter(line, m.end)

\* a test that takes a text with exactly one link only
has_link_exactly_one(s) == Len(LinkFindIter(s, 0)) = 1

has_link(s) == LinkSearch(s, 0).found

----------------------------------------------------------------------------
(* draw_markdown_line_with_links, lines 196-258.  st is the loop's state:  *)
(* cursor_x, pos, the canvas calls made (drawString as "text", linkURL as  *)
(* "link") and the pieces of the line they were made for.                  *)

TextOps(runs) == [i \in 1..Len(runs) |-> [op |-> "text"] @@ runs[i]]

DrawPlain(st, s, text_font, emoji_font, font_size) ==
    IF s = <<>> THEN st
    ELSE LET d == draw_segment_with_emoji(st.cursor_x, s, text_font, emoji_font,
                                          font_size)
         IN  [st EXCEPT !.cursor_x = st.cursor_x + d.width,
                        !.calls = st.calls \o TextOps(d.runs),
                        !.spans = Append(st.spans, [kind |-> "plain", src |-> s])]

\* a loop body that resumes after the title instead of after the match
LinkStep_pos_after_title(st, line, m, text_font, emoji_font, font_size) ==
    LET pre == DrawPlain(st, Slice(line, st.pos, m.start), text_font, emoji_font,
                         font_size)
        link_x_start == pre.cursor_x
        d == draw_segment_with_emoji(link_x_start, m.title, text_font, emoji_font,
                                     font_size)
        link_x_end == link_x_start + d.width
    IN  [cursor_x |-> link_x_end,
         pos      |-> m.start + 1 + Len(m.title),
         calls    |-> pre.calls \o TextOps(d.runs)
                      \o <<[op |-> "link", url |-> m.url,
                            x1 |-> link_x_start, x2 |-> link_x_end]>>,
         spans    |-> Append(pre.spans,
                             [kind |-> "link", src |-> Slice(line, m.start, m.end),
                              title |-> m.title, url |-> m.url])]

\* a loop body whose clickable rectangle starts where the text before the
\* link starts
LinkStep_rect_from_pre_text(st, line, m, text_font, emoji_font, font_size) ==
    LET pre == DrawPlain(st, Slice(line, st.pos, m.start), text_font, emoji_font,
                         font_size)
        link_x_start == pre.cursor_x
        d == draw_segment_with_emoji(link_x_start, m.title, text_font, emoji_font,
                                     font_size)
        link_x_end == link_x_start + d.width
    IN  [cursor_x |-> link_x_end,
         pos      |-> m.end,
         calls    |-> pre.calls \o TextOps(d.runs)
                      \o <<[op |-> "link", url |-> m.url,
                            x1 |-> st.cursor_x, x2 |-> link_x_end]>>,
         spans    |-> Append(pre.spans,
                             [kind |-> "link", src |-> Slice(line, m.start, m.end),
                              title |-> m.title, url |-> m.url])]

\* the body of `for match in pattern.finditer(line)`, lines 215-248
LinkStep(st, line, m, text_font, emoji_font, font_size) ==
    LET pre == DrawPlain(st, Slice(line, st.pos, m.start), text_font, emoji_font,
                         font_size)
        link_x_start == pre.cursor_x
        d == draw_segment_with_emoji(link_x_start, m.title, text_font, emoji_font,
                                     font_size)
        link_x_end == link_x_start + d.width
    IN  [cursor_x |-> link_x_end,
         pos      |-> m.end,
         calls    |-> pre.calls \o TextOps(d.runs)
                      \o <<[op |-> "link", url |-> m.url,
                            x1 |-> link_x_start, x2 |-> link_x_end]>>,
         spans    |-> Append(pre.spans,
                             [kind |-> "link", src |-> Slice(line, m.start, m.end),
                              title |-> m.title, url |-> m.url])]

RECURSIVE LinkLoop(_, _, _, _, _, _)
LinkLoop(st, line, matches, text_font, emoji_font, font_size) ==
    IF matches = <<>> THEN st
    ELSE LinkLoop(LinkStep(st, line, Head(matches), text_font, emoji_font, font_size),
                  line, Tail(matches), text_font, emoji_font, font_size)

\* returns the canvas calls, the pieces of the line and the final cursor
draw_markdown_line_with_links(x, line, text_font, emoji_font, font_size) ==
    LET st0 == [cursor_x |-> x, pos |-> 0, calls |-> <<>>, spans |-> <<>>]
        st  == LinkLoop(st0, line, LinkFindIter(line, 0), text_font, emoji_font,
                        font_size)
    IN  DrawPlain(st, Slice(line, st.pos, Len(line)), text_font, emoji_font,
                  font_size)

----------------------------------------------------------------------------
(* wrapper = textwrap.TextWrapper(width=max_chars_per_line), lines 426-427, *)
(* and wrapper.wrap(text): the standard library's greedy wrap with its      *)
(* defaults (break_long_words, drop_whitespace).  Chunks are the maximal    *)
(* runs of whitespace and of other characters; break_on_hyphens adds break  *)
(* points only inside a word that has a hyphen between letters, and no text *)
(* wrapped in this model has one.                                           *)

max_chars_per_line == 55

Last(s) == s[Len(s)]

Front(s) == SubSeq(s, 1, Len(s) - 1)

\* TextWrapper._split: the chunks of s from the 1-based index i on
RECURSIVE SplitChunks(_, _)
SplitChunks(s, i) ==
    IF i > Len(s) THEN <<>>
    ELSE LET others == {j \in i..Len(s) : IsSpace(s[j]) # IsSpace(s[i])}
             e == IF others = {} THEN Len(s) + 1
                  ELSE CHOOSE j \in others : \A k \in others : j <= k
         IN  <<SubSeq(s, i, e - 1)>> \o SplitChunks(s, e)

\* chunk.strip() == ''
IsBlankChunk(c) == strip(c) = <<>>

\* the inner `while chunks` of _wrap_chunks: take chunks while they fit
RECURSIVE FillLine(_, _, _, _)
FillLine(chunks, cur_line, cur_len, width) ==
    IF chunks # <<>> /\ cur_len + Len(Head(chunks)) <= width
    THEN FillLine(Tail(chunks), Append(cur_line, Head(chunks)),
                  cur_len + Len(Head(chunks)), width)
    ELSE [rest |-> chunks, cur_line |-> cur_line, cur_len |-> cur_len]

\* TextWrapper._handle_long_word with break_long_words and break_on_hyphens
HandleLongWord(f, width) ==
    LET space_left == IF width < 1 THEN 1 ELSE width - f.cur_len
        chunk == Head(f.rest)
        hyphens == {h \in 1..space_left : chunk[h] = "-"}
        hyphen == IF hyphens = {} THEN 0
                  ELSE CHOOSE h \in hyphens : \A k \in hyphens : k <= h
        end == IF hyphen > 1 /\ \E k \in 1..(hyphen - 1) : chunk[k] # "-"
               THEN hyphen ELSE space_left
    IN  [rest     |-> <<SubSeq(chunk, end + 1, Len(chunk))>> \o Tail(f.rest),
         cur_line |-> Append(f.cur_line, SubSeq(chunk, 1, end)),
         cur_len  |-> f.cur_len + end]

\* TextWrapper._wrap_chunks
RECURSIVE WrapChunks(_, _, _)
WrapChunks(chunks, lines, width) ==
    IF chunks = <<>> THEN lines
    ELSE LET kept == IF IsBlankChunk(Head(chunks)) /\ lines # <<>>
                     THEN Tail(chunks) ELSE chunks
             f == FillLine(kept, <<>>, 0, width)
             h == IF f.rest # <<>> /\ Len(Head(f.rest)) > width
                  THEN HandleLongWord(f, width) ELSE f
             cur_line == IF h.cur_line # <<>> /\ IsBlankChunk(Last(h.cur_line))
                         THEN Front(h.cur_line) ELSE h.cur_line
         IN  WrapChunks(h.rest,
                        IF cur_line # <<>> THEN Append(lines, Concat(cur_line))
                        ELSE lines,
                        width)

wrapper_wrap(s) == WrapChunks(SplitChunks(s, 1), <<>>, max_chars_per_line)

\* a wrap whose empty result is not replaced by one empty line
wrap_without_fallback(s) == wrapper_wrap(s)

\* `wrapper.wrap(text) or [""]`, lines 488, 615 and 637
wrap_or_empty(s) == IF wrapper_wrap(s) = <<>> THEN << <<>> >> ELSE wrapper_wrap(s)

----------------------------------------------------------------------------
(* The tests of the loop body of generate_weather_news_pdf_from_markdown   *)
(* that decide which branch handles a line, lines 435-546.                 *)

\* line 435: line.strip() == "" or line.strip() == "---"
is_blank_or_rule(line) == strip(line) = <<>> \/ strip(line) = <<"-", "-", "-">>

RealSources == <<"R", "e", "a", "l", " ", "S", "o", "u", "r", "c", "e", "s">>

\* line 442: line.strip().startswith("**\U0001F4DA") and "Real Sources" in line
is_sources_heading(line) ==
    /\ StartsWith(strip(line), <<"*", "*", "U+1F4DA">>)
    /\ Contains(line, RealSources)

\* a test that takes a line with a complete **...** pair only
has_bold_pair(line) ==
    \E i \in 1..Len(line) :
        /\ i + 1 <= Len(line) /\ line[i] = "*" /\ line[i + 1] = "*"
        /\ \E j \in (i + 3)..(Len(line) - 1) : line[j] = "*" /\ line[j + 1] = "*"

\* line 470: "**" in line
has_bold_marker(line) == Contains(line, <<"*", "*">>)

IsMarkerAt(line, i) == i + 1 <= Len(line) /\ line[i] = "*" /\ line[i + 1] = "*"

\* the match of \*\*(.+?)\*\* that starts at the 1-based index i, if any: the
\* group is the shortest non-empty text followed by "**"
BoldMatchAt(line, i) ==
    LET closes == {j \in (i + 3)..Len(line) : IsMarkerAt(line, j)}
    IN  IF ~IsMarkerAt(line, i) \/ closes = {} THEN NoMatch
        ELSE LET j == CHOOSE c \in closes : \A d \in closes : c <= d
             IN  [found |-> TRUE, start |-> i - 1, end |-> j + 1,
                  group |-> SubSeq(line, i + 2, j - 1)]

\* re.search(r"\*\*(.+?)\*\*", line) from position from on
BoldSearch(line, from) ==
    LET hits == {i \in (from + 1)..Len(line) : BoldMatchAt(line, i).found}
    IN  IF hits = {} THEN NoMatch
        ELSE BoldMatchAt(line, CHOOSE i \in hits : \A j \in hits : i <= j)

\* re.sub(r"\*\*(.+?)\*\*", r"\1", line), from position from on
RECURSIVE BoldSub(_, _)
BoldSub(line, from) ==
    LET m == BoldSearch(line, from)
    IN  IF ~m.found THEN Slice(line, from, Len(line))
        ELSE Slice(line, from, m.start) \o m.group \o BoldSub(line, m.end)

\* lines 473-476
headline_text(line) ==
    IF BoldSearch(line, 0).found THEN strip(BoldSub(line, 0)) ELSE strip(line)

\* line 541: re.match(r"^\s*[-*]\s+(.*)$", line); text is group 1
bullet_match(line) ==
    LET marks == {i \in 1..Len(line) : ~IsSpace(line[i])}
    IN  IF marks = {} THEN NoMatch
        ELSE LET i == CHOOSE m \in marks : \A k \in marks : m <= k
                 rest == {k \in (i + 1)..Len(line) : ~IsSpace(line[k])}
                 body == IF rest = {} THEN Len(line) + 1
                         ELSE CHOOSE m \in rest : \A k \in rest : m <= k
             IN  IF line[i] \in {"-", "*"} /\ i + 1 <= Len(line)
                    /\ IsSpace(line[i + 1])
                 THEN [found |-> TRUE, text |-> SubSeq(line, body, Len(line))]
                 ELSE NoMatch

\* a loop body that skips a line with a bold marker and an empty label
BlockOf_drops_empty_label(line) ==
    IF is_blank_or_rule(line) THEN "Blank"
    ELSE IF is_sources_heading(line) THEN "SectionHeader"
    ELSE IF has_bold_marker(line)
         THEN IF headline_text(line) # <<>> THEN "Headline" ELSE "Blank"
    ELSE IF bullet_match(line).found
         THEN IF has_link(bullet_match(line).text) THEN "BulletLink"
              ELSE "BulletPlain"
    ELSE "Paragraph"

\* a loop body that tests for a bullet before it tests for a bold marker
BlockOf_bullet_first(line) ==
    IF is_blank_or_rule(line) THEN "Blank"
    ELSE IF is_sources_heading(line) THEN "SectionHeader"
    ELSE IF bullet_match(line).found
         THEN IF has_link(bullet_match(line).text) THEN "BulletLink"
              ELSE "BulletPlain"
    ELSE IF has_bold_marker(line) /\ headline_text(line) # <<>> THEN "Headline"
    ELSE "Paragraph"

\* the branch of the loop body that handles a line: each test is reached only
\* when the tests before it failed (every branch ends in `continue`)
BlockOf(line) ==
    IF is_blank_or_rule(line) THEN "Blank"
    ELSE IF is_sources_heading(line) THEN "SectionHeader"
    ELSE IF has_bold_marker(line) /\ headline_text(line) # <<>> THEN "Headline"
    ELSE IF bullet_match(line).found
         THEN IF has_link(bullet_match(line).text) THEN "BulletLink"
              ELSE "BulletPlain"
    ELSE "Paragraph"

----------------------------------------------------------------------------
(* Page geometry, lines 379-389 and 421 *)

page_width == 210 * mm

page_height == 297 * mm

margin_left == 20 * mm

margin_right == 20 * mm

margin_top == 25 * mm

margin_bottom == 20 * mm

line_height == 14 * pt

header_height == 25 * mm

\* line 421: the cursor below the header bar
y_start == page_height - header_height - 10 * mm

\* lines 492-494
h2_font_size == 13

pad_x == 4 * mm

pad_y == (3 * mm) \div 2

rect_h == h2_font_size * pt + pad_y * 2

\* line 563
thumb_size == 120 * pt

bullet_prefix == <<"U+2022", " ">>

----------------------------------------------------------------------------
(* The input lines.  content_md.splitlines() is any sequence of at most    *)
(* MaxLines of these.                                                      *)

MaxLines == 6

Word(ch, n) == Rep(<<ch>>, n)

SourcesHeading == <<"*", "*", "U+1F4DA", " ">> \o RealSources \o <<":", "*", "*">>

LongUrlLink == <<"[", "t", "]", "(">> \o Word("/", 60) \o <<")">>

Lines ==
    << <<>>,
       <<"-", "-", "-">>,
       SourcesHeading,
       <<"*", "*", "U+2600", " ", "U+AE30", "a", "*", "*">>,
       <<"*", "*">> \o Rep(Word("U+AE30", 5) \o <<" ">>, 12) \o <<"a", "*", "*">>,
       <<"-", " ", "*", "*", "a", "*", "*">>,
       <<"a", " ", "*", "*", " ", "b">>,
       <<"*", "*", " ", "*", "*">>,
       <<"-", " ">> \o LinkPiece,
       <<"*", " ", "a", " ", "U+1F4DA", "U+1F4DA", " ", "b">>,
       <<"-", " ">> \o Rep(Word("a", 9) \o <<" ">>, 7) \o <<"b">>,
       <<"a", "a", " ", "U+AE30", "U+2B50">>,
       Rep(Word("U+AE30", 10) \o <<" ">>, 4) \o Word("U+AE30", 10),
       <<"a", " ">> \o Word("U+AE30", 60),
       <<"a", " ">> \o LinkPiece \o <<" ", "b">>,
       <<"a", "a", " ">> \o LongUrlLink,
       Rep(Word("a", 54) \o <<" ">>, 22) \o <<"a">>,
       <<"-", " ", "a", " ">> \o LinkPiece \o <<" ">> \o LinkPiece,
       <<"-", " ", "*", "*", "a", "*", "*", " ">> \o LinkPiece,
       SourcesHeading \o <<" ", "b">>,
       <<"-", " ">> \o LongUrlLink,
       <<"-", " ", "a", " ", "*", "*">>,
       <<"-", " ">>,
       <<"a", " ", "U+27C0">> >>

NLines == Len(Lines)

----------------------------------------------------------------------------
(* What each branch draws for a line: the strings it passes to             *)
(* draw_markdown_line_with_links, with their x and font size.              *)

Draw(s, x, font_size) == [s |-> s, x |-> x, font_size |-> font_size]

\* lines 452-462
SectionDraws(line) == <<Draw(strip_stars(strip(line)), margin_left, 12)>>

\* lines 488-529; text_width is measure_text_width of the segment, line 497
HeadlineDraws(line) ==
    LET h2_segments == wrap_or_empty(headline_text(line))
    IN  SubSeq([k \in 1..Len(h2_segments) |->
                   Draw(h2_segments[k], margin_left, h2_font_size)
                   @@ [text_width |->
                          measure_text_width(h2_segments[k], KOREAN_FONT_NAME,
                                             EMOJI_FONT_NAME, h2_font_size)]],
               1, Len(h2_segments))

\* lines 584-593 (sources section, size 10) and 602-610 (size 11)
BulletLinkDraws(line, font_size) ==
    <<Draw(bullet_prefix \o bullet_match(line).text, margin_left + 4 * mm, font_size)>>

\* lines 615-630
BulletPlainDraws(line) ==
    LET wrapped == wrap_or_empty(bullet_match(line).text)
    IN  SubSeq([k \in 1..Len(wrapped) |->
                   Draw((IF k = 1 THEN bullet_prefix ELSE <<" ", " ">>) \o wrapped[k],
                        margin_left + 4 * mm, 11)],
               1, Len(wrapped))

\* lines 637-650
ParagraphDraws(line) ==
    LET wrapped == wrap_or_empty(line)
    IN  SubSeq([k \in 1..Len(wrapped) |-> Draw(wrapped[k], margin_left, 11)],
               1, Len(wrapped))

LineInfo(line) ==
    LET kind == BlockOf(line)
    IN  [kind  |-> kind,
         draws |-> CASE kind = "Blank"         -> <<>>
                     [] kind = "SectionHeader" -> SectionDraws(line)
                     [] kind = "Headline"      -> HeadlineDraws(line)
                     [] kind = "BulletLink"    -> BulletLinkDraws(line, 11)
                     [] kind = "BulletPlain"   -> BulletPlainDraws(line)
                     [] kind = "Paragraph"     -> ParagraphDraws(line)]

\* the layout of every input line, evaluated once (SubSeq makes the tuples)
Layout == SubSeq([i \in 1..NLines |-> LineInfo(Lines[i])], 1, NLines)

----------------------------------------------------------------------------
(* The canvas.  S is [y, page, ops, fill]: the cursor, the number of       *)
(* showPage calls, the canvas calls made for the current line and the      *)
(* fill colour.  A draw records                                            *)
(* the cursor its page check read (y_check) and whether the check broke    *)
(* the page; y is the baseline of a text, the lower edge of a rectangle or *)
(* an image.                                                               *)

\* c.showPage(); y = height - margin_top.  The new page starts with the
\* canvas's initial graphics state, whose fill colour is black
ShowPage(S) ==
    [y    |-> page_height - margin_top,
     page |-> S.page + 1,
     ops  |-> Append(S.ops, [op |-> "showPage", page |-> S.page]),
     fill |-> "black"]

\* a page check that breaks the page twice
BreakIf_twice(cond, S) == IF cond THEN ShowPage(ShowPage(S)) ELSE S

\* `if <cond>: c.showPage(); y = height - margin_top`
BreakIf(cond, S) == IF cond THEN ShowPage(S) ELSE S

Lower(S, dy) == [S EXCEPT !.y = S.y - dy]

\* c.setFillColorRGB(...)
SetFill(S, colour) == [S EXCEPT !.fill = colour]

TextOp(S, k, d, y_check, broke) ==
    [op |-> "text", k |-> k, x |-> d.x, y |-> S.y, font_size |-> d.font_size,
     page |-> S.page, y_check |-> y_check, broke |-> broke]

DrawLine(S, k, d, y_check, broke) ==
    [S EXCEPT !.ops = Append(S.ops, TextOp(S, k, d, y_check, broke))]

----------------------------------------------------------------------------
(* The branches of the loop body *)

\* lines 435-437
BlankBranch(S) == Lower(S, (line_height * 7) \div 10)

\* lines 445-464
SectionBranch(S, draws) ==
    LET S1 == Lower(S, (line_height * 5) \div 10)
        broke == S1.y < margin_bottom
        S2 == BreakIf(broke, S1)
        S3 == DrawLine(SetFill(S2, "bluish"), 1, draws[1], S1.y, broke)
    IN  Lower(SetFill(S3, "black"), (line_height * 12) \div 10)

\* a headline segment whose page check reads the baseline alone
HeadlineSegment_checks_baseline(S, k, d) ==
    LET broke == S.y < margin_bottom
        S1 == BreakIf(broke, S)
        rect == [op |-> "rect", k |-> k, x |-> margin_left - pad_x,
                 y |-> S1.y - pad_y, w |-> d.text_width + pad_x * 2, h |-> rect_h,
                 page |-> S1.page, y_check |-> S.y, broke |-> broke]
        S2 == [S1 EXCEPT !.ops = Append(S1.ops, rect), !.fill = "light blue"]
    IN  Lower(DrawLine(SetFill(S2, "dark text"), k, d, S.y, broke),
              rect_h + (line_height * 2) \div 10)

\* lines 490-531: one headline segment
HeadlineSegment(S, k, d) ==
    LET broke == S.y - rect_h < margin_bottom
        S1 == BreakIf(broke, S)
        rect == [op |-> "rect", k |-> k, x |-> margin_left - pad_x,
                 y |-> S1.y - pad_y, w |-> d.text_width + pad_x * 2, h |-> rect_h,
                 page |-> S1.page, y_check |-> S.y, broke |-> broke]
        S2 == [S1 EXCEPT !.ops = Append(S1.ops, rect), !.fill = "light blue"]
    IN  Lower(DrawLine(SetFill(S2, "dark text"), k, d, S.y, broke),
              rect_h + (line_height * 2) \div 10)

RECURSIVE HeadlineLoop(_, _, _)
HeadlineLoop(S, k, draws) ==
    IF k > Len(draws) THEN S
    ELSE HeadlineLoop(HeadlineSegment(S, k, draws[k]), k + 1, draws)

\* a headline that leaves the colour of its text set
HeadlineBranch_keeps_text_colour(S, draws) ==
    LET S1 == Lower(S, (line_height * 5) \div 10)
        S2 == BreakIf(S1.y < margin_bottom, S1)
    IN  Lower(HeadlineLoop(S2, 1, draws), (line_height * 1) \div 10)

\* lines 478-536
HeadlineBranch(S, draws) ==
    LET S1 == Lower(S, (line_height * 5) \div 10)
        S2 == BreakIf(S1.y < margin_bottom, S1)
    IN  Lower(SetFill(HeadlineLoop(S2, 1, draws), "black"), (line_height * 1) \div 10)

\* the heights, in pixels, of the images a page can name
ImageHeights == {64, 630}

\* what the two fetches of a sources bullet can come to.  get_thumbnail_url
\* (lines 281-312): requests.get or raise_for_status raises and the except of
\* line 298 returns None ("failed"); the page names no image and the function
\* falls off its end, returning None ("no_image"); the page names an image
\* and its url is returned ("url"); or the parse of the page or the urljoin
\* of the image's address raises ("raised": lines 302-312 are in no try).
\* draw_thumbnail_from_url (lines 326-369): the download raises ("failed"),
\* the decode or the draw raises ("undecodable"), or an image h pixels high
\* is drawn ("drawn").
ThumbOutcomes ==
    {[page |-> p, thumb_url |-> FALSE, image |-> "none", drawn |-> FALSE, h |-> 0]
        : p \in {"failed", "no_image", "raised"}}
    \cup {[page |-> "url", thumb_url |-> TRUE, image |-> im, drawn |-> FALSE, h |-> 0]
              : im \in {"failed", "undecodable"}}
    \cup {[page |-> "url", thumb_url |-> TRUE, image |-> "drawn", drawn |-> TRUE,
           h |-> h] : h \in ImageHeights}

\* a request that is made a second time when the first one failed
RequestsGet_retrying(S, target, result) ==
    [S EXCEPT !.ops = S.ops \o
        [n \in 1..(IF result = "failed" THEN 2 ELSE 1) |->
            [op |-> "requests.get", target |-> target, result |-> result]]]

\* requests.get, lines 296 and 334: one request for the page or the image
RequestsGet(S, target, result) ==
    [S EXCEPT !.ops = Append(S.ops, [op |-> "requests.get", target |-> target,
                                     result |-> result])]

\* get_thumbnail_url, lines 281-312: one request for the page, no second try
get_thumbnail_url(S, outcome) == RequestsGet(S, "page", outcome.page)

\* draw_thumbnail_from_url, lines 315-369: size = min(size, h); the image's
\* lower-left corner is (x, y).  y_check and broke are the page check that
\* came before the call, line 547
draw_thumbnail_from_url(S, outcome, thumb_y, size, y_check, broke) ==
    IF ~outcome.thumb_url THEN S
    ELSE LET S1 == RequestsGet(S, "image", outcome.image)
             thumb_h == Min(size, outcome.h * pt)
         IN  IF ~outcome.drawn THEN S1
             ELSE [S1 EXCEPT !.ops = S1.ops \o
                     <<[op |-> "image", y |-> thumb_y, h |-> thumb_h,
                        page |-> S.page, y_check |-> y_check, broke |-> broke],
                       [op |-> "linkURL", y1 |-> thumb_y, y2 |-> thumb_y + thumb_h,
                        page |-> S.page]>>]

\* lines 547-598: a bullet with a link in the sources section
SourcesBulletBranch(S, d, outcome) ==
    LET broke == S.y < margin_bottom
        S0 == BreakIf(broke, S)
        S1 == get_thumbnail_url(S0, outcome)
        thumb_y == S1.y - thumb_size - 5 * pt
        S2 == IF outcome.thumb_url
              THEN draw_thumbnail_from_url(S1, outcome, thumb_y, thumb_size, S.y, broke)
              ELSE S1
        S3 == SetFill(DrawLine(SetFill(S2, "darker for sources"), 1,
                               [d EXCEPT !.font_size = 10], S.y, broke),
                      "black")
    IN  IF outcome.page = "raised" THEN S1
        ELSE IF outcome.thumb_url THEN Lower(S3, line_height + thumb_size + 10 * pt)
        ELSE Lower(S3, line_height)

\* lines 547-549 and 600-611: a bullet with a link before the sources section
BulletLinkBranch(S, d) ==
    LET broke == S.y < margin_bottom
        S1 == BreakIf(broke, S)
    IN  Lower(DrawLine(S1, 1, d, S.y, broke), line_height)

\* lines 622-630 and 643-650: draw one wrapped line, then y -= line_height
WrappedLine(S, k, d, y_check, broke) ==
    Lower(DrawLine(S, k, d, y_check, broke), line_height)

\* a loop over the wrapped lines whose page check waits for the edge of the
\* page instead of the bottom margin
RECURSIVE WrappedLoop_checks_page_edge(_, _, _)
WrappedLoop_checks_page_edge(S, k, draws) ==
    IF k > Len(draws) THEN S
    ELSE IF S.y < 0
         THEN WrappedLoop_checks_page_edge(
                  WrappedLine(ShowPage(S), k, draws[k], S.y, TRUE), k + 1, draws)
         ELSE WrappedLoop_checks_page_edge(
                  WrappedLine(S, k, draws[k], S.y, FALSE), k + 1, draws)

\* lines 617-631 and 638-651: `for seg in wrapped`, each line after the page
\* check `if y < margin_bottom` (lines 619 and 640)
RECURSIVE WrappedLoop(_, _, _)
WrappedLoop(S, k, draws) ==
    IF k > Len(draws) THEN S
    ELSE IF S.y < margin_bottom
         THEN WrappedLoop(WrappedLine(ShowPage(S), k, draws[k], S.y, TRUE),
                          k + 1, draws)
         ELSE WrappedLoop(WrappedLine(S, k, draws[k], S.y, FALSE), k + 1, draws)

----------------------------------------------------------------------------
(* The header bar, lines 389-417.  base_utc is the time handed to the      *)
(* render or, without one, the time of the call (lines 373-374); a time is *)
(* [Y, m, d, H, M].  Every Hangul syllable is written U+AE30.              *)

BaseTimes ==
    {[Y |-> 2025, m |-> 1, d |-> 9, H |-> 0, M |-> 5],
     [Y |-> 2026, m |-> 11, d |-> 2, H |-> 23, M |-> 40]}

Digit(n) == <<"0", "1", "2", "3", "4", "5", "6", "7", "8", "9">>[n + 1]

\* strftime's %m, %d, %H, %M: two digits
Fmt2(n) == <<Digit(n \div 10), Digit(n % 10)>>

\* strftime's %Y: four digits
Fmt4(n) == Fmt2(n \div 100) \o Fmt2(n % 100)

\* line 397, after the globe and the space of line 406
header_title ==
    <<"U+1F30D", " ">> \o Word("U+AE30", 3) \o <<" ">> \o Word("U+AE30", 2)
    \o <<" ">> \o Word("U+AE30", 2) \o <<" ">> \o Word("U+AE30", 2) \o <<" ">>
    \o Word("U+AE30", 2)

\* line 398: base_utc.strftime("<two syllables>: %Y-%m-%d %H:%M UTC")
header_sub(base_utc) ==
    <<"U+AE30", "U+AE30", ":", " ">> \o Fmt4(base_utc.Y) \o <<"-">>
    \o Fmt2(base_utc.m) \o <<"-">> \o Fmt2(base_utc.d) \o <<" ">>
    \o Fmt2(base_utc.H) \o <<":">> \o Fmt2(base_utc.M) \o <<" ", "U", "T", "C">>

header_x == margin_left

header_y == page_height - header_height + 8 * mm

\* the drawString calls of one draw_segment_with_emoji in the header
HeaderText(s, text_y, font_size) ==
    LET runs == draw_segment_with_emoji(header_x, s, KOREAN_FONT_NAME,
                                        EMOJI_FONT_NAME, font_size).runs
    IN  [n \in 1..Len(runs) |->
            [op |-> "text", x |-> runs[n].x, y |-> text_y, font_size |-> font_size,
             page |-> 0, s |-> runs[n].text]]

\* a header that shows the hour, without padding, in front of the title
HeaderOps_hour_before_title(base_utc) ==
    <<[op |-> "rect", x |-> 0, y |-> page_height - header_height,
       w |-> page_width, h |-> header_height, page |-> 0]>>
    \o HeaderText((IF base_utc.H < 10 THEN <<Digit(base_utc.H)>>
                   ELSE Fmt2(base_utc.H)) \o header_title,
                  header_y + 8 * pt, 13)
    \o HeaderText(header_sub(base_utc), header_y - 2 * pt, 9)

\* lines 393-417: the bar, the title and the time of issue
HeaderOps(base_utc) ==
    <<[op |-> "rect", x |-> 0, y |-> page_height - header_height,
       w |-> page_width, h |-> header_height, page |-> 0]>>
    \o HeaderText(header_title, header_y + 8 * pt, 13)
    \o HeaderText(header_sub(base_utc), header_y - 2 * pt, 9)

Headers == {HeaderOps(base_utc) : base_utc \in BaseTimes}

\* twin when one render only is followed
NoTwin == [pc |-> "none"]

----------------------------------------------------------------------------
(* Spec: generate_weather_news_pdf_from_markdown, one action per branch of *)
(* the loop over content_md.splitlines(), lines 431-651, and one for the   *)
(* end of the document, lines 653-654.                                     *)

Init ==
    /\ pc = "loop"
    /\ y = y_start
    /\ page = 0
    /\ in_sources_section = FALSE
    /\ fill = "black"
    /\ nlines = 0
    /\ cur = 0
    /\ block = "none"
    /\ ops = <<>>
    /\ y_in = y_start
    /\ page_in = 0
    /\ header \in Headers
    /\ twin = NoTwin
    /\ text = <<>>
    /\ out = Idle

Here == [y |-> y, page |-> page, ops |-> <<>>, fill |-> fill]

\* the loop reads a line whose block is kind
CanRead(info, kind) ==
    /\ pc = "loop"
    /\ nlines < MaxLines
    /\ info.kind = kind

\* the line is consumed by the branch for kind, which leaves the canvas at S
Consume(i, kind, S) ==
    /\ cur' = i
    /\ block' = kind
    /\ nlines' = nlines + 1
    /\ y_in' = y
    /\ page_in' = page
    /\ y' = S.y
    /\ page' = S.page
    /\ ops' = S.ops
    /\ fill' = S.fill
    /\ UNCHANGED <<pc, header, twin, text, out>>

\* lines 435-437
Blank(i, info) ==
    /\ CanRead(info, "Blank")
    /\ \E S \in {BlankBranch(Here)} : Consume(i, "Blank", S)
    /\ UNCHANGED in_sources_section

\* lines 442-465
SectionHeader(i, info) ==
    /\ CanRead(info, "SectionHeader")
    /\ in_sources_section' = TRUE
    /\ \E S \in {SectionBranch(Here, info.draws)} : Consume(i, "SectionHeader", S)

\* lines 470-537
Headline(i, info) ==
    /\ CanRead(info, "Headline")
    /\ \E S \in {HeadlineBranch(Here, info.draws)} : Consume(i, "Headline", S)
    /\ UNCHANGED in_sources_section

\* lines 546-598
SourcesBullet(i, info) ==
    /\ CanRead(info, "BulletLink")
    /\ in_sources_section
    /\ \E outcome \in {o \in ThumbOutcomes : o.page # "raised"} :
          \E S \in {SourcesBulletBranch(Here, info.draws[1], outcome)} :
              Consume(i, "BulletLink", S)
    /\ UNCHANGED in_sources_section

\* lines 546-561, when get_thumbnail_url raises: nothing between line 561
\* and the caller of generate_weather_news_pdf_from_markdown catches the
\* exception, so the render ends without c.save()
SourcesBulletRaises(i, info) ==
    /\ CanRead(info, "BulletLink")
    /\ in_sources_section
    /\ \E outcome \in {o \in ThumbOutcomes : o.page = "raised"} :
          \E S \in {SourcesBulletBranch(Here, info.draws[1], outcome)} :
              /\ cur' = i
              /\ block' = "BulletLink"
              /\ nlines' = nlines + 1
              /\ y_in' = y
              /\ page_in' = page
              /\ y' = S.y
              /\ page' = S.page
              /\ ops' = S.ops
              /\ fill' = S.fill
    /\ pc' = "aborted"
    /\ UNCHANGED <<in_sources_section, header, twin, text, out>>

\* a branch for bullets with a link that is taken in the sources section too
BulletLink_in_any_section(i, info) ==
    /\ CanRead(info, "BulletLink")
    /\ \E S \in {BulletLinkBranch(Here, info.draws[1])} : Consume(i, "BulletLink", S)
    /\ UNCHANGED in_sources_section

\* lines 546-549 and 600-611
BulletLink(i, info) ==
    /\ CanRead(info, "BulletLink")
    /\ ~in_sources_section
    /\ \E S \in {BulletLinkBranch(Here, info.draws[1])} : Consume(i, "BulletLink", S)
    /\ UNCHANGED in_sources_section

\* lines 613-631
BulletPlain(i, info) ==
    /\ CanRead(info, "BulletPlain")
    /\ \E S \in {WrappedLoop(Here, 1, info.draws)} : Consume(i, "BulletPlain", S)
    /\ UNCHANGED in_sources_section

\* lines 637-651
Paragraph(i, info) ==
    /\ CanRead(info, "Paragraph")
    /\ \E S \in {WrappedLoop(Here, 1, info.draws)} : Consume(i, "Paragraph", S)
    /\ UNCHANGED in_sources_section

\* lines 653-654: c.showPage(); c.save()
Finish ==
    /\ pc = "loop"
    /\ pc' = "done"
    /\ page' = page + 1
    /\ UNCHANGED <<y, in_sources_section, fill, nlines, cur, block, ops, y_in,
                   page_in, header, twin, text, out>>

\* one iteration of `for raw_line in lines` (line 431) on line i of the
\* catalogue, or the end of the document
Next ==
    \/ \E i \in 1..NLines : \E info \in {Layout[i]} :
          \/ Blank(i, info)
          \/ SectionHeader(i, info)
          \/ Headline(i, info)
          \/ SourcesBullet(i, info)
          \/ SourcesBulletRaises(i, info)
          \/ BulletLink(i, info)
          \/ BulletPlain(i, info)
          \/ Paragraph(i, info)
    \/ Finish

Spec == Init /\ [][Next]_vars

----------------------------------------------------------------------------
(* SpecText: the helpers applied to every string made of at most MaxPieces *)
(* of the pieces below.                                                    *)

MaxPieces == 4

Pieces ==
    {<<"a">>, <<" ">>, <<"[">>, <<"]">>, <<"(">>, <<")">>,
     <<"U+1F4DA">>, <<"U+2600">>, LinkPiece}

RECURSIVE PieceTexts(_)
PieceTexts(n) ==
    IF n = 0 THEN {<<>>}
    ELSE LET shorter == PieceTexts(n - 1)
         IN  shorter \cup {s \o p : s \in shorter, p \in Pieces}

Texts == PieceTexts(MaxPieces)

FontSizes == {11, 13}

RenderIdle ==
    /\ pc = "text"
    /\ y = 0
    /\ page = 0
    /\ in_sources_section = FALSE
    /\ fill = "black"
    /\ nlines = 0
    /\ cur = 0
    /\ block = "none"
    /\ ops = <<>>
    /\ y_in = 0
    /\ page_in = 0
    /\ header = <<>>
    /\ twin = NoTwin

InitText ==
    /\ RenderIdle
    /\ text \in Texts
    /\ out = Idle

ApplyDrawSegment ==
    /\ out = Idle
    /\ \E font_size \in FontSizes :
          out' = [op |-> "draw_segment_with_emoji", font_size |-> font_size]
                 @@ draw_segment_with_emoji(20 * mm, text, KOREAN_FONT_NAME,
                                            EMOJI_FONT_NAME, font_size)
    /\ UNCHANGED <<text, renderVars>>

ApplyDrawLine ==
    /\ out = Idle
    /\ \E font_size \in FontSizes :
          out' = [op |-> "draw_markdown_line_with_links", font_size |-> font_size]
                 @@ draw_markdown_line_with_links(20 * mm, text, KOREAN_FONT_NAME,
                                                  EMOJI_FONT_NAME, font_size)
    /\ UNCHANGED <<text, renderVars>>

NextText == ApplyDrawSegment \/ ApplyDrawLine

SpecText == InitText /\ [][NextText]_vars

----------------------------------------------------------------------------
(* Claims about the helpers, checked under SpecText *)

RECURSIVE SumW(_)
SumW(runs) == IF runs = <<>> THEN 0 ELSE Head(runs).w + SumW(Tail(runs))

RunTexts(runs) == Concat([i \in 1..Len(runs) |-> runs[i].text])

SegmentDrawn == out.op = "draw_segment_with_emoji"

\* C7: the runs draw_segment_with_emoji draws, in draw order, concatenate to
\* the string it was given, each run starts where the previous one ended, and
\* the width it returns is the sum of the run widths and is what
\* measure_text_width returns for the same string, fonts and size.
C7_RunsPartitionText ==
    SegmentDrawn =>
        /\ RunTexts(out.runs) = text
        /\ \A i \in 1..Len(out.runs) : out.runs[i].text # <<>>
        /\ out.width = SumW(out.runs)
        /\ out.width = measure_text_width(text, KOREAN_FONT_NAME, EMOJI_FONT_NAME,
                                          out.font_size)

C7_Witness ==
    /\ SegmentDrawn
    /\ Len(out.runs) >= 3
    /\ \E i, j \in 1..Len(out.runs) :
          /\ out.runs[i].font = KOREAN_FONT_NAME
          /\ out.runs[j].font = EMOJI_FONT_NAME
          /\ i < j

\* the script class of section 4.1 of the specification
IsSymbolClass(ch) ==
    \/ ord(ch) \in 127744..129791
    \/ ord(ch) \in 9728..9983
    \/ ord(ch) \in 9984..10175

\* C8 as stated: no two adjacent runs have the same script class.
C8_Original_RunsMaximal ==
    SegmentDrawn =>
        \A i \in 1..(Len(out.runs) - 1) : out.runs[i].font # out.runs[i + 1].font

\* C8 as amended: every run holds characters of one class and is drawn with
\* that class's font, no two adjacent runs are both Primary, and every Symbol
\* run is one emoji character (consecutive emoji are adjacent Symbol runs).
C8_PrimaryRunsMaximal ==
    SegmentDrawn =>
        /\ \A i \in 1..Len(out.runs) :
              LET r == out.runs[i]
              IN  IF r.font = EMOJI_FONT_NAME
                  THEN Len(r.text) = 1 /\ IsSymbolClass(r.text[1])
                  ELSE \A k \in 1..Len(r.text) : ~IsSymbolClass(r.text[k])
        /\ \A i \in 1..(Len(out.runs) - 1) :
              ~(out.runs[i].font = KOREAN_FONT_NAME
                /\ out.runs[i + 1].font = KOREAN_FONT_NAME)

C8_Witness ==
    /\ SegmentDrawn
    /\ \E i \in 1..(Len(out.runs) - 1) :
          /\ out.runs[i].font = EMOJI_FONT_NAME
          /\ out.runs[i + 1].font = EMOJI_FONT_NAME
    /\ \E i \in 1..Len(out.runs) : Len(out.runs[i].text) >= 2

\* s is the source text of one link: "[", a title without "]", "](", a url
\* without ")", ")", title and url not empty
IsLinkSource(s) ==
    \E j \in 3..(Len(s) - 3) :
        /\ s[1] = "["
        /\ s[j] = "]"
        /\ s[j + 1] = "("
        /\ s[Len(s)] = ")"
        /\ \A i \in 2..(j - 1) : s[i] # "]"
        /\ \A i \in (j + 2)..(Len(s) - 1) : s[i] # ")"

HoldsLink(s) ==
    \E a \in 1..Len(s) : \E b \in a..Len(s) : IsLinkSource(SubSeq(s, a, b))

SpanSources(spans) == Concat([i \in 1..Len(spans) |-> spans[i].src])

LineDrawn == out.op = "draw_markdown_line_with_links"

\* C9: the pieces draw_markdown_line_with_links cuts a line into, in order,
\* concatenate to the line; a link piece is the source text of one link, with
\* its title and url; a plain piece is not empty and holds no link; and a line
\* that holds no well-formed link is one plain piece (none for an empty line).
C9_SpansCoverLine ==
    LineDrawn =>
        /\ SpanSources(out.spans) = text
        /\ \A i \in 1..Len(out.spans) :
              LET sp == out.spans[i]
              IN  IF sp.kind = "link"
                  THEN /\ IsLinkSource(sp.src)
                       /\ sp.src = <<"[">> \o sp.title \o <<"]", "(">> \o sp.url
                                   \o <<")">>
                  ELSE /\ sp.kind = "plain"
                       /\ sp.src # <<>>
                       /\ ~HoldsLink(sp.src)
        /\ \A i \in 1..(Len(out.spans) - 1) :
              ~(out.spans[i].kind = "plain" /\ out.spans[i + 1].kind = "plain")
        /\ ~HoldsLink(text) =>
              out.spans = IF text = <<>> THEN <<>>
                          ELSE <<[kind |-> "plain", src |-> text]>>

C9_Witness ==
    /\ LineDrawn
    /\ Len(out.spans) >= 3
    /\ out.spans[1].kind = "plain"
    /\ out.spans[2].kind = "link"
    /\ \E i \in 1..Len(out.spans[3].src) : out.spans[3].src[i] \in {"[", "]", "(", ")"}

C9_WitnessMalformed ==
    /\ LineDrawn
    /\ Len(out.spans) = 1
    /\ Len(text) >= 4
    /\ \E i \in 1..(Len(text) - 1) : text[i] = "]" /\ text[i + 1] = "("


----------------------------------------------------------------------------
(* Claims about the renderer, checked under Spec.  What a draw of the      *)
(* current line put on the canvas is looked up in tables over the input    *)
(* lines.                                                                  *)

DrawOps == {j \in DOMAIN ops : ops[j].op \in {"text", "rect", "image"}}

TextOpsOfLine == {j \in DOMAIN ops : ops[j].op = "text"}

\* the calls draw_markdown_line_with_links makes for draw k of line i
CanvasCalls ==
    SubSeq([i \in 1..NLines |->
               SubSeq([k \in 1..Len(Layout[i].draws) |->
                          draw_markdown_line_with_links(
                              Layout[i].draws[k].x, Layout[i].draws[k].s,
                              KOREAN_FONT_NAME, EMOJI_FONT_NAME,
                              Layout[i].draws[k].font_size).calls],
                      1, Len(Layout[i].draws))],
           1, NLines)

\* measure_text_width of draw k of line i
MeasuredWidth ==
    SubSeq([i \in 1..NLines |->
               SubSeq([k \in 1..Len(Layout[i].draws) |->
                          measure_text_width(Layout[i].draws[k].s, KOREAN_FONT_NAME,
                                             EMOJI_FONT_NAME,
                                             Layout[i].draws[k].font_size)],
                      1, Len(Layout[i].draws))],
           1, NLines)

\* the text the branch for line i hands to the wrapper
WrappedSource(i) ==
    CASE Layout[i].kind = "Headline"    -> headline_text(Lines[i])
      [] Layout[i].kind = "BulletPlain" -> bullet_match(Lines[i]).text
      [] Layout[i].kind = "Paragraph"   -> Lines[i]
      [] OTHER                          -> <<>>

\* the whitespace-delimited tokens of s
TokensOf(s) ==
    LET chunks == SplitChunks(s, 1)
    IN  {chunks[c] : c \in {c \in DOMAIN chunks : ~IsBlankChunk(chunks[c])}}

\* the tokens of line i with their measured widths at the size they are drawn
SourceTokens ==
    SubSeq([i \in 1..NLines |->
               IF Layout[i].draws = <<>> THEN {}
               ELSE {[token |-> t,
                      width |-> measure_text_width(t, KOREAN_FONT_NAME,
                                                   EMOJI_FONT_NAME,
                                                   Layout[i].draws[1].font_size)]
                       : t \in TokensOf(WrappedSource(i))}],
           1, NLines)

\* the tokens of draw k of line i, the bullet mark left out
DrawnTokens ==
    SubSeq([i \in 1..NLines |->
               SubSeq([k \in 1..Len(Layout[i].draws) |->
                          TokensOf(Layout[i].draws[k].s) \ {<<"U+2022">>}],
                      1, Len(Layout[i].draws))],
           1, NLines)

IsWrappedBlock == block \in {"Headline", "BulletPlain", "Paragraph"}

\* the column a draw starting at x has up to the right margin
max_width(x) == page_width - margin_right - x

usable_height == y_start - margin_bottom

\* C1: no draw operation (text line, headline rectangle, thumbnail image)
\* has a vertical extent that leaves its page, and a thumbnail's lower edge
\* is never below the bottom margin.
C1_NoDrawLeavesThePage ==
    \A j \in DrawOps :
        LET o == ops[j]
            top == CASE o.op = "text" -> o.y + o.font_size * pt
                     [] OTHER         -> o.y + o.h
        IN  /\ o.y >= 0
            /\ top <= page_height
            /\ o.op = "image" => o.y >= margin_bottom

\* the height H of a primitive: a headline segment is its bar, a thumbnail
\* its image, and a text line stands on its baseline
PrimitiveHeight(o) ==
    CASE o.op = "rect"                        -> o.h
      [] o.op = "image"                       -> o.h
      [] o.op = "text" /\ block = "Headline"  -> rect_h
      [] OTHER                                -> 0

\* C2: before every draw of height H the renderer starts a new page exactly
\* when cursor_y - H < bottom_margin; the draw after a break is on the next
\* page.
C2_BreakExactlyWhenNoRoom ==
    \A j \in DrawOps :
        /\ ops[j].broke <=> ops[j].y_check - PrimitiveHeight(ops[j]) < margin_bottom
        /\ ops[j].broke => ops[j].page > page_in

\* C3 as claimed: a document whose cumulative cursor advance exceeds the
\* usable height of one page has more than one page.  Until a page is
\* broken the cumulative advance is y_start - y, and a document with a broken
\* page has more than one page.
C3_Original_AdvanceForcesSecondPage ==
    (pc = "done" /\ y_start - y > usable_height) => page > 1

\* C3 as amended: when a line that draws something is read after the cursor
\* advance of the lines before it has exceeded the usable height (the cursor
\* is below the bottom margin), a page is broken before its first draw and
\* the document has more than one page.
C3_DrawAfterFullPageBreaks ==
    (block \notin {"none", "Blank"} /\ y_in < margin_bottom)
        => /\ page > page_in
           /\ ops # <<>> /\ ops[1].op = "showPage"
           /\ pc = "done" => page > 1

C3_Witness ==
    /\ pc = "done"
    /\ block = "Paragraph"
    /\ page_in = 0
    /\ y_start - y_in > usable_height
    /\ page = 2

DelimiterChars == {"[", "]", "(", ")", "/"}

\* C4: for a line with a well-formed [title](url) span, no visible text the
\* renderer draws holds a character of the url or a bracket or parenthesis
\* (no other text of the input lines has these characters).
C4_UrlNeverDrawn ==
    (cur > 0 /\ has_link(Lines[cur])) =>
        \A j \in TextOpsOfLine :
            \A c \in DOMAIN CanvasCalls[cur][ops[j].k] :
                LET call == CanvasCalls[cur][ops[j].k][c]
                IN  call.op = "text" =>
                        \A n \in DOMAIN call.text : call.text[n] \notin DelimiterChars

\* C5: when the column is at least as wide as the widest token of the
\* wrapped text, every display line of a paragraph, plain bullet or headline
\* measures at most the column.
C5_WrappedLineFitsColumn ==
    (cur > 0 /\ IsWrappedBlock) =>
        \A j \in TextOpsOfLine :
            (\A t \in SourceTokens[cur] : t.width <= max_width(ops[j].x))
                => MeasuredWidth[cur][ops[j].k] <= max_width(ops[j].x)

\* C6: a token wider than the column is drawn whole and alone on one display
\* line of its paragraph, plain bullet or headline.
C6_OversizedTokenNotSplit ==
    (cur > 0 /\ IsWrappedBlock) =>
        \A t \in SourceTokens[cur] :
            t.width > max_width(Layout[cur].draws[1].x)
                => \E j \in TextOpsOfLine : DrawnTokens[cur][ops[j].k] = {t.token}

RuleNames ==
    <<"Blank", "SectionHeader", "Headline", "BulletLink", "BulletPlain", "Paragraph">>

\* two "**" with at least one character between them
HasEmphasisPair(line) ==
    \E i \in 1..Len(line) :
        IsMarkerAt(line, i) /\ \E j \in (i + 3)..Len(line) : IsMarkerAt(line, j)

\* the rules other than the headline rule, by their place in the order
OtherRule(line, r) ==
    CASE r = 1 -> strip(line) \in {<<>>, <<"-", "-", "-">>}
      [] r = 2 -> is_sources_heading(line)
      [] r = 4 -> bullet_match(line).found /\ has_link(bullet_match(line).text)
      [] r = 5 -> bullet_match(line).found
      [] r = 6 -> TRUE

\* the headline rule as claimed: the line contains an emphasis pair
ClaimedRule(line, r) == IF r = 3 THEN HasEmphasisPair(line) ELSE OtherRule(line, r)

\* the headline rule as amended: the line contains "**" and its label, the
\* line with the markers of its pairs removed and trimmed, is not empty
AmendedRule(line, r) ==
    IF r = 3 THEN Contains(line, <<"*", "*">>) /\ headline_text(line) # <<>>
    ELSE OtherRule(line, r)

\* the name of the first rule that matches each input line
ClaimedKinds ==
    SubSeq([i \in 1..NLines |->
               RuleNames[CHOOSE r \in 1..6 :
                            /\ ClaimedRule(Lines[i], r)
                            /\ \A q \in 1..(r - 1) : ~ClaimedRule(Lines[i], q)]],
           1, NLines)

AmendedKinds ==
    SubSeq([i \in 1..NLines |->
               RuleNames[CHOOSE r \in 1..6 :
                            /\ AmendedRule(Lines[i], r)
                            /\ \A q \in 1..(r - 1) : ~AmendedRule(Lines[i], q)]],
           1, NLines)

\* the input lines that match the bullet prefix and hold an emphasis pair
BulletsWithPair ==
    {i \in 1..NLines : bullet_match(Lines[i]).found /\ HasEmphasisPair(Lines[i])}

\* the block the canvas calls of the current line are those of
RenderedAs ==
    IF ops = <<>> THEN "Blank"
    ELSE IF \E j \in DOMAIN ops : ops[j].op = "rect" THEN "Headline"
    ELSE IF \E j \in TextOpsOfLine : ops[j].font_size = 12 THEN "SectionHeader"
    ELSE IF \E j \in TextOpsOfLine : ops[j].x = margin_left THEN "Paragraph"
    ELSE IF \E c \in DOMAIN CanvasCalls[cur][1] : CanvasCalls[cur][1][c].op = "link"
         THEN "BulletLink"
    ELSE "BulletPlain"

\* C10 as claimed: every line is rendered as the block of the first rule it
\* matches in the order Blank, SectionHeader, Headline (the line contains an
\* emphasis pair), BulletLink, BulletPlain, Paragraph.
C10_Original_HeadlineIsEmphasisPair ==
    cur > 0 => block = ClaimedKinds[cur] /\ RenderedAs = ClaimedKinds[cur]

\* C10 as amended: every line is rendered as the block of the first rule it
\* matches in the order Blank, SectionHeader, Headline (the line contains
\* "**" and its label is not empty), BulletLink, BulletPlain, Paragraph,
\* whatever lines came before it; a line that matches the bullet prefix and
\* holds an emphasis pair is rendered as a Headline.
C10_FirstMatchingRule ==
    cur > 0 =>
        /\ block = AmendedKinds[cur]
        /\ RenderedAs = AmendedKinds[cur]
        /\ cur \in BulletsWithPair => RenderedAs = "Headline"

C10_Witness ==
    /\ cur \in BulletsWithPair
    /\ block = "Headline"
    /\ nlines > 1
    /\ \E j \in DOMAIN ops : ops[j].op = "rect"

----------------------------------------------------------------------------
(* Bullets and their links *)

\* the body of every input line that matches the bullet prefix
BulletBody ==
    SubSeq([i \in 1..NLines |->
               IF bullet_match(Lines[i]).found THEN bullet_match(Lines[i]).text
               ELSE <<>>],
           1, NLines)

Bulleted == {i \in 1..NLines : bullet_match(Lines[i]).found}

\* the number of [title](url) spans of the body of every input line
BodyLinks ==
    SubSeq([i \in 1..NLines |-> Len(LinkFindIter(BulletBody[i], 0))], 1, NLines)

\* the linkURL calls of draw k of line i
LinkCalls(i, k) ==
    {c \in DOMAIN CanvasCalls[i][k] : CanvasCalls[i][k][c].op = "link"}

\* the line is drawn as one text line that holds the bullet mark and the
\* whole body, however long
DrawnUnwrapped ==
    /\ Cardinality(TextOpsOfLine) = 1
    /\ Len(Layout[cur].draws) = 1
    /\ Layout[cur].draws[1].s = bullet_prefix \o BulletBody[cur]

\* C11 as claimed: a bulleted line is rendered as a BulletLink exactly when
\* its body holds exactly one [title](url) span.
C11_Original_ExactlyOneLink ==
    (cur \in Bulleted /\ pc # "aborted") =>
        (block = "BulletLink" /\ DrawnUnwrapped <=> BodyLinks[cur] = 1)

\* C11 as amended: a bulleted line without "**" is rendered as an unwrapped
\* BulletLink exactly when its body holds at least one [title](url) span, and
\* every span of the body gets its own clickable region; a bulleted line with
\* "**" is a Headline whatever links it holds.
C11_BulletWithAnyLink ==
    (cur \in Bulleted /\ pc # "aborted") =>
        /\ block = "BulletLink"
              <=> (BodyLinks[cur] >= 1 /\ ~Contains(Lines[cur], <<"*", "*">>))
        /\ block = "BulletLink" =>
              /\ DrawnUnwrapped
              /\ Cardinality(LinkCalls(cur, 1)) = BodyLinks[cur]
        /\ Contains(Lines[cur], <<"*", "*">>) => block = "Headline"
        /\ block = "BulletPlain" => BodyLinks[cur] = 0

C11_Witness ==
    /\ cur \in Bulleted
    /\ BodyLinks[cur] >= 2
    /\ block = "BulletLink"
    /\ DrawnUnwrapped
    /\ Cardinality(LinkCalls(cur, 1)) = 2

\* a bulleted link longer than the wrapper's width, on one line
C11_WitnessLong ==
    /\ block = "BulletLink"
    /\ DrawnUnwrapped
    /\ Len(Layout[cur].draws[1].s) > max_chars_per_line

----------------------------------------------------------------------------
(* Emphasis markers *)

\* the input lines that contain "**"
Marked == {i \in 1..NLines : Contains(Lines[i], <<"*", "*">>)}

\* the input lines that contain a complete emphasis pair
Paired == {i \in 1..NLines : HasEmphasisPair(Lines[i])}

\* the input lines whose only emphasis markers are stray ones, the blank
\* lines and the sources headings left out
StrayOnly ==
    {i \in Marked \ Paired :
        /\ strip(Lines[i]) \notin {<<>>, <<"-", "-", "-">>}
        /\ ~is_sources_heading(Lines[i])}

\* the label the headline branch draws has a "**" in it
LabelShowsMarker ==
    \E j \in TextOpsOfLine : Contains(Layout[cur].draws[ops[j].k].s, <<"*", "*">>)

----------------------------------------------------------------------------
(* The sources section and its thumbnails *)

\* the requests made for the current line
Requests(target) ==
    {j \in DOMAIN ops : ops[j].op = "requests.get" /\ ops[j].target = target}

\* get_thumbnail_url was called for the current line
ThumbnailRequested == Requests("page") # {}

\* the step reads a line and handles it as kind
Reads(kind) == nlines' = nlines + 1 /\ block' = kind

\* the input lines the test of line 442 takes for the sources heading
SourcesHeadings == {i \in 1..NLines : is_sources_heading(Lines[i])}

\* C13: the sources flag is false before any line is read, is raised by the
\* lines handled as SectionHeader (those with the bold sources marker) and by
\* no other step, and is never lowered; a BulletLink gets a thumbnail request
\* exactly when the flag is up when the bullet is read.
C13_SourcesFlag ==
    /\ [](nlines = 0 => ~in_sources_section)
    /\ [][/\ in_sources_section => in_sources_section'
          /\ (~in_sources_section /\ in_sources_section') => Reads("SectionHeader")
          /\ Reads("SectionHeader") => in_sources_section' /\ cur' \in SourcesHeadings
          /\ (nlines' = nlines + 1 /\ cur' \in SourcesHeadings)
                => Reads("SectionHeader")
          /\ Reads("BulletLink") => (ThumbnailRequested' <=> in_sources_section)
          /\ (nlines' = nlines + 1 /\ ThumbnailRequested') => Reads("BulletLink")
         ]_vars

C13_Witness ==
    /\ in_sources_section
    /\ block = "BulletLink"
    /\ ThumbnailRequested
    /\ nlines >= 3

\* a bullet with a link read before the heading: no request
C13_WitnessBefore ==
    /\ ~in_sources_section
    /\ block = "BulletLink"
    /\ ~ThumbnailRequested

\* the current line is a bullet with a link read in the sources section
SourcesBulletRead == block = "BulletLink" /\ ThumbnailRequested

\* C14: for one sources-section BulletLink get_thumbnail_url fetches the page
\* once and draw_thumbnail_from_url fetches the image at most once, only
\* after the page gave an image url; a failed fetch is followed by no other
\* fetch; no other line fetches anything.
C14_OneFetchEach ==
    /\ Cardinality(Requests("page")) <= 1
    /\ Cardinality(Requests("image")) <= 1
    /\ block # "BulletLink" => Requests("page") \cup Requests("image") = {}
    /\ \A j \in Requests("image") :
          \E n \in Requests("page") : n < j /\ ops[n].result = "url"
    /\ \A j \in Requests("page") \cup Requests("image") :
          ops[j].result = "failed" =>
              \A n \in DOMAIN ops : n > j => ops[n].op # "requests.get"

C14_Witness ==
    /\ SourcesBulletRead
    /\ \E j \in Requests("page") : ops[j].result = "url"
    /\ \E j \in Requests("image") : ops[j].result = "failed"
    /\ Cardinality(Requests("page") \cup Requests("image")) = 2

\* a fetch or a parse for the current line's thumbnail failed
ThumbnailFailed ==
    \E j \in Requests("page") \cup Requests("image") :
        ops[j].result \in {"failed", "raised", "undecodable"}

ImageOps == {j \in DOMAIN ops : ops[j].op = "image"}

\* C15: a failure of the page fetch, the page parse, the image download or
\* the image decode never aborts the render: the bullet is drawn without an
\* image, with its text and its link region, and the loop goes on.
C15_FetchFailureNeverAborts ==
    /\ pc # "aborted"
    /\ (SourcesBulletRead /\ ThumbnailFailed) =>
          /\ ImageOps = {}
          /\ Cardinality(TextOpsOfLine) = 1
          /\ LinkCalls(cur, 1) # {}

\* C16: after a sources-section BulletLink the cursor is one text line, the
\* drawn height of the image and the gap of line 596 below the bullet's
\* baseline when an image was drawn, and one text line below it when none
\* was.
C16_AdvanceMatchesThumbnail ==
    (SourcesBulletRead /\ pc # "aborted") =>
        \A j \in TextOpsOfLine :
            IF ImageOps # {}
            THEN \A n \in ImageOps :
                    ops[j].y - y = line_height + ops[n].h + 10 * pt
            ELSE ops[j].y - y = line_height

----------------------------------------------------------------------------
(* The clickable region of a bullet's link *)

BulletSizes == {10, 11}

\* what draw_markdown_line_with_links does with the one draw of every bullet
\* with a link, at the size of the sources section and at the body size
BulletDrawn ==
    SubSeq([i \in 1..NLines |->
               IF Layout[i].kind # "BulletLink" THEN <<>>
               ELSE [fs \in BulletSizes |->
                        draw_markdown_line_with_links(
                            Layout[i].draws[1].x, Layout[i].draws[1].s,
                            KOREAN_FONT_NAME, EMOJI_FONT_NAME, fs)]],
           1, NLines)

\* the links of the body of every input line, in order
BodyLinkSpans ==
    SubSeq([i \in 1..NLines |-> LinkFindIter(BulletBody[i], 0)], 1, NLines)

\* the indices of the linkURL calls among calls, in order
RECURSIVE LinkIndices(_, _)
LinkIndices(calls, from) ==
    IF from > Len(calls) THEN <<>>
    ELSE IF calls[from].op = "link" THEN <<from>> \o LinkIndices(calls, from + 1)
    ELSE LinkIndices(calls, from + 1)

\* the texts of the drawString calls a..b of calls, joined
CallTexts(calls, a, b) == Concat([n \in 1..(b - a + 1) |-> calls[a + n - 1].text])

\* the widths of the drawString calls before call a, summed
WidthBefore(calls, a) ==
    SumRange([n \in 1..(a - 1) |-> IF calls[n].op = "text" THEN calls[n].w ELSE 0],
             1, a - 1)

\* the rectangle of linkURL call c covers the drawString calls a..c-1, which
\* show the title of link and nothing else, from the left edge of the first
\* to the right edge of the last; everything drawn before them, the bullet
\* mark included, lies to its left
CoversTitle(calls, c, a, link, x, font_size) ==
    /\ \A n \in a..(c - 1) : calls[n].op = "text"
    /\ CallTexts(calls, a, c - 1) = link.title
    /\ calls[c].url = link.url
    /\ calls[c].x1 = calls[a].x
    /\ calls[c].x2 = calls[c - 1].x + calls[c - 1].w
    /\ calls[c].x1 = x + WidthBefore(calls, a)
    /\ calls[c].x1 >= x + measure_text_width(bullet_prefix, KOREAN_FONT_NAME,
                                             EMOJI_FONT_NAME, font_size)
    /\ calls[c].x2 - calls[c].x1
          = measure_text_width(link.title, KOREAN_FONT_NAME, EMOJI_FONT_NAME,
                               font_size)

\* the regions registered for the current line: those of its links and that
\* of its thumbnail
RegionCount ==
    Cardinality(LinkCalls(cur, 1))
    + Cardinality({j \in DOMAIN ops : ops[j].op = "linkURL"})

\* get_thumbnail_url returned None for the current line
ResolverGaveNothing ==
    \E j \in Requests("page") : ops[j].result \in {"failed", "no_image"}

\* C17: for a BulletLink, the clickable rectangle of every link goes from
\* where its display text begins to where it ends, to the right of the
\* bullet mark and of the text before the link; a bullet with one link for
\* which the resolver returns nothing registers one region, draws no image
\* and leaves the cursor one line height below the bullet's baseline.
C17_RegionCoversDisplayText ==
    (block = "BulletLink" /\ pc # "aborted") =>
        \A j \in TextOpsOfLine :
            LET calls == BulletDrawn[cur][ops[j].font_size].calls
                at    == LinkIndices(calls, 1)
                links == BodyLinkSpans[cur]
            IN  /\ ops[j].font_size = IF in_sources_section THEN 10 ELSE 11
                /\ Len(at) = Len(links)
                /\ \A n \in 1..Len(at) :
                      \E a \in 1..(at[n] - 1) :
                          CoversTitle(calls, at[n], a, links[n], ops[j].x,
                                      ops[j].font_size)
                /\ (Len(links) = 1 /\ ResolverGaveNothing) =>
                      /\ RegionCount = 1
                      /\ ImageOps = {}
                      /\ ops[j].y - y = line_height

C17_Witness ==
    /\ block = "BulletLink"
    /\ BodyLinks[cur] = 1
    /\ ResolverGaveNothing
    /\ RegionCount = 1
    /\ ImageOps = {}
    /\ y_in - y = line_height

\* a link with text between the bullet mark and its title
C17_WitnessTextBefore ==
    /\ block = "BulletLink"
    /\ \E j \in TextOpsOfLine :
          LET calls == BulletDrawn[cur][ops[j].font_size].calls
          IN  calls[LinkIndices(calls, 1)[1]].x1
                > ops[j].x + measure_text_width(bullet_prefix, KOREAN_FONT_NAME,
                                                EMOJI_FONT_NAME, ops[j].font_size)

----------------------------------------------------------------------------
(* The bar of a headline *)

\* the width of the text draw_markdown_line_with_links shows for draw k of
\* line i: the widths of its drawString calls, summed
DrawnWidth ==
    SubSeq([i \in 1..NLines |->
               SubSeq([k \in 1..Len(Layout[i].draws) |->
                          WidthBefore(CanvasCalls[i][k], Len(CanvasCalls[i][k]) + 1)],
                      1, Len(Layout[i].draws))],
           1, NLines)

RectOps == {j \in DOMAIN ops : ops[j].op = "rect"}

\* the gap after a headline segment, line 531
segment_gap == (line_height * 2) \div 10

\* C19: the bar of every wrapped segment of a Headline is as wide as the
\* text drawn on it plus twice the horizontal padding, the text is drawn on
\* the bar, and the next segment of the same page is drawn the bar's height
\* and the gap lower; also when the segment holds a [title](url) span.
C19_BarFitsDrawnText ==
    (cur > 0 /\ block = "Headline") =>
        \A j \in RectOps :
            /\ ops[j].w = DrawnWidth[cur][ops[j].k] + 2 * pad_x
            /\ \E t \in TextOpsOfLine :
                  /\ ops[t].k = ops[j].k
                  /\ ops[t].page = ops[j].page
                  /\ ops[t].y = ops[j].y + pad_y
            /\ \A n \in RectOps :
                  (ops[n].k = ops[j].k + 1 /\ ops[n].page = ops[j].page)
                      => ops[n].y = ops[j].y - (ops[j].h + segment_gap)

\* the text drawString shows for draw k of line i, its calls joined
VisibleText ==
    SubSeq([i \in 1..NLines |->
               SubSeq([k \in 1..Len(Layout[i].draws) |->
                          Concat([c \in 1..Len(CanvasCalls[i][k]) |->
                                     IF CanvasCalls[i][k][c].op = "text"
                                     THEN CanvasCalls[i][k][c].text ELSE <<>>])],
                      1, Len(Layout[i].draws))],
           1, NLines)

\* C20: the text shown for a Headline or a SectionHeader holds no "**",
\* wherever the markers are in the line and however many there are.
C20_LabelHasNoMarker ==
    (cur > 0 /\ block \in {"Headline", "SectionHeader"}) =>
        \A j \in TextOpsOfLine :
            ~Contains(VisibleText[cur][ops[j].k], <<"*", "*">>)

----------------------------------------------------------------------------
(* SpecTwice: generate_weather_news_pdf_from_markdown called twice on the  *)
(* same content_md, each call with its own base_utc and its own outcomes   *)
(* of the thumbnail fetches.  The first call is followed in the variables  *)
(* of Spec, the second in twin; both read the same line at every step.     *)

MaxLinesTwice == 3

\* no fetch is made for the line
NoFetch == [page |-> "none", thumb_url |-> FALSE, image |-> "none",
            drawn |-> FALSE, h |-> 0]

\* lines 555-561: only a bullet with a link in the sources section fetches
OutcomesFor(kind, in_sources) ==
    IF kind = "BulletLink" /\ in_sources THEN ThumbOutcomes ELSE {NoFetch}

\* the loop body of lines 431-651 applied to a line: the branch its block is
\* handled by, from the canvas S
BranchOf(S, in_sources, info, outcome) ==
    CASE info.kind = "Blank"         -> BlankBranch(S)
      [] info.kind = "SectionHeader" -> SectionBranch(S, info.draws)
      [] info.kind = "Headline"      -> HeadlineBranch(S, info.draws)
      [] info.kind = "BulletLink"    ->
            IF in_sources THEN SourcesBulletBranch(S, info.draws[1], outcome)
            ELSE BulletLinkBranch(S, info.draws[1])
      [] info.kind = "BulletPlain"   -> WrappedLoop(S, 1, info.draws)
      [] info.kind = "Paragraph"     -> WrappedLoop(S, 1, info.draws)

InitTwice ==
    /\ pc = "loop"
    /\ y = y_start
    /\ page = 0
    /\ in_sources_section = FALSE
    /\ fill = "black"
    /\ nlines = 0
    /\ cur = 0
    /\ block = "none"
    /\ ops = <<>>
    /\ y_in = y_start
    /\ page_in = 0
    /\ header \in Headers
    /\ twin \in {[pc |-> "loop", y |-> y_start, page |-> 0,
                   in_sources_section |-> FALSE, ops |-> <<>>, header |-> h,
                   agree |-> TRUE] : h \in Headers}
    /\ text = <<>>
    /\ out = Idle

\* one iteration of the loop of line 431 in both renders, on line i
RenderTwice(i, info) ==
    /\ pc = "loop"
    /\ twin.pc = "loop"
    /\ nlines < MaxLinesTwice
    /\ \E o1 \in OutcomesFor(info.kind, in_sources_section) :
       \E o2 \in OutcomesFor(info.kind, twin.in_sources_section) :
       \E S1 \in {BranchOf(Here, in_sources_section, info, o1)} :
       \E S2 \in {BranchOf([y |-> twin.y, page |-> twin.page, ops |-> <<>>,
                             fill |-> fill],
                            twin.in_sources_section, info, o2)} :
          /\ pc' = IF o1.page = "raised" THEN "aborted" ELSE "loop"
          /\ y' = S1.y
          /\ page' = S1.page
          /\ ops' = S1.ops
          /\ fill' = S1.fill
          /\ twin' = [twin EXCEPT
                         !.pc = IF o2.page = "raised" THEN "aborted" ELSE "loop",
                         !.y = S2.y,
                         !.page = S2.page,
                         !.ops = S2.ops,
                         !.in_sources_section = @ \/ info.kind = "SectionHeader",
                         !.agree = @ /\ o1 = o2]
    /\ in_sources_section' = (in_sources_section \/ info.kind = "SectionHeader")
    /\ cur' = i
    /\ block' = info.kind
    /\ nlines' = nlines + 1
    /\ y_in' = y
    /\ page_in' = page
    /\ UNCHANGED <<header, text, out>>

\* lines 653-654 in both renders
FinishTwice ==
    /\ pc = "loop"
    /\ twin.pc = "loop"
    /\ pc' = "done"
    /\ page' = page + 1
    /\ twin' = [twin EXCEPT !.pc = "done", !.page = @ + 1]
    /\ UNCHANGED <<y, in_sources_section, fill, nlines, cur, block, ops, y_in,
                   page_in, header, text, out>>

NextTwice ==
    \/ \E i \in 1..NLines : \E info \in {Layout[i]} : RenderTwice(i, info)
    \/ FinishTwice

SpecTwice == InitTwice /\ [][NextTwice]_vars

\* a canvas call without the text it shows
OpGeometry(o) == [f \in DOMAIN o \ {"s"} |-> o[f]]

\* o is a call on the canvas, not a fetch
IsCanvasCall(o) == o.op # "requests.get"

\* the page geometry of a render: how it ended, the pages begun, the cursor
\* and the canvas calls of the header and of the line read last, with their
\* coordinates
Geometry(r) ==
    [pc     |-> r.pc,
     page   |-> r.page,
     y      |-> r.y,
     header |-> [n \in DOMAIN r.header |-> OpGeometry(r.header[n])],
     ops    |-> SelectSeq(r.ops, IsCanvasCall)]

FirstRender == [pc |-> pc, page |-> page, y |-> y, header |-> header, ops |-> ops]

----------------------------------------------------------------------------
(* Wrapped blocks *)

\* the display lines the wrapper makes of the text of every input line
WrappedLines ==
    SubSeq([i \in 1..NLines |-> wrap_or_empty(WrappedSource(i))], 1, NLines)

IsTextOp(o) == o.op = "text"

\* the text operations of the current line, in the order they were made
TextOpSeq == SelectSeq(ops, IsTextOp)

\* C21: a BulletPlain or Paragraph whose text wraps into n display lines
\* draws them all, n >= 1, in order, each one line height below the one
\* before it or at the top of a new page, and leaves the cursor one line
\* height below the last; a bullet's first line is drawn after the bullet
\* mark and a space, its other lines after two spaces.
C21_WrappedLinesDrawn ==
    (cur > 0 /\ block \in {"BulletPlain", "Paragraph"}) =>
        LET n == Len(WrappedLines[cur])
            t == TextOpSeq
        IN  /\ n >= 1
            /\ Len(t) = n
            /\ \A k \in 1..n :
                  /\ t[k].k = k
                  /\ t[k].font_size = 11
                  /\ Layout[cur].draws[k].s =
                        (CASE block = "Paragraph" -> <<>>
                           [] k = 1             -> <<"U+2022", " ">>
                           [] OTHER             -> <<" ", " ">>)
                        \o WrappedLines[cur][k]
                  /\ t[k].x = IF block = "Paragraph" THEN margin_left
                              ELSE margin_left + 4 * mm
                  /\ t[k].y = IF t[k].broke THEN page_height - margin_top
                              ELSE IF k = 1 THEN y_in
                              ELSE t[k - 1].y - line_height
            /\ y = t[n].y - line_height
            /\ page = page_in => y_in - y = n * line_height

C21_Witness ==
    /\ block = "BulletPlain"
    /\ Len(WrappedLines[cur]) >= 2
    /\ Len(TextOpSeq) = Len(WrappedLines[cur])
    /\ y_in - y = Len(WrappedLines[cur]) * line_height

\* a bullet with an empty body: one line, the bullet mark alone
C21_WitnessEmpty ==
    /\ block = "BulletPlain"
    /\ WrappedLines[cur] = << <<>> >>
    /\ Len(TextOpSeq) = 1
    /\ y_in - y = line_height

----------------------------------------------------------------------------
(* Glyphs *)

\* the input lines with a character neither font has a glyph for
GlyphlessLines ==
    {i \in 1..NLines :
        \E n \in 1..Len(Lines[i]) :
            /\ ~HasGlyph(Lines[i][n], KOREAN_FONT_NAME)
            /\ ~HasGlyph(Lines[i][n], EMOJI_FONT_NAME)}

\* C22: a render whose input has a character with a glyph in neither font
\* fails before it draws; it never draws the line of that character and
\* never completes the document.
C22_MissingGlyphIsFatal ==
    cur \in GlyphlessLines => (pc = "aborted" /\ TextOpsOfLine = {})

----------------------------------------------------------------------------
(* SpecPost: post_to_discord, lines 111-153, on every content made of at   *)
(* most MaxRuns runs.  A content is a sequence of runs; a run is n copies  *)
(* of one character, and the newline is a run of its own.                  *)

MaxRuns == 4

LIMIT == 2000

NL == [ch |-> "\n", n |-> 1]

Runs ==
    {NL,
     [ch |-> "a", n |-> 1],
     [ch |-> "b", n |-> 999],
     [ch |-> "c", n |-> 1000],
     [ch |-> "d", n |-> 1999],
     [ch |-> "e", n |-> 2000],
     [ch |-> "f", n |-> 2001]}

RECURSIVE ContentsOf(_)
ContentsOf(n) ==
    IF n = 0 THEN {<<>>}
    ELSE LET shorter == ContentsOf(n - 1)
         IN  shorter \cup {s \o <<r>> : s \in shorter, r \in Runs}

Contents == ContentsOf(MaxRuns)

\* Python's len(s)
RECURSIVE len(_)
len(s) == IF s = <<>> THEN 0 ELSE Head(s).n + len(Tail(s))

\* Python's s.split('\n'): the pieces between the newlines, empty ones kept
RECURSIVE split(_)
split(s) ==
    IF \A k \in 1..Len(s) : s[k] # NL THEN <<s>>
    ELSE LET k == CHOOSE j \in 1..Len(s) :
                     s[j] = NL /\ \A h \in 1..(j - 1) : s[h] # NL
         IN  <<SubSeq(s, 1, k - 1)>> \o split(SubSeq(s, k + 1, Len(s)))

\* requests.post(DISCORD_NEWS_WEBHOOK_URL, json={"content": msg}): the call
\* is made; it returns a response, which the caller does not look at, or
\* it raises
requests_post(o, msg, result) ==
    [o EXCEPT !.posts = Append(@, msg),
              !.at = IF result = "raises" THEN "raised" ELSE @]

PostResults == {"response", "raises"}

PostStart == [at |-> "start", lines |-> <<>>, i |-> 0,
              current_chunk |-> <<>>, posts |-> <<>>]

InitPost ==
    /\ RenderIdle
    /\ text \in Contents
    /\ out = PostStart

PostStep(o) ==
    /\ out' = o
    /\ UNCHANGED <<text, renderVars>>

\* line 115
ReturnEmpty ==
    /\ out.at = "start"
    /\ text = <<>>
    /\ PostStep([out EXCEPT !.at = "returned"])

\* lines 121-124
PostSingle ==
    /\ out.at = "start"
    /\ text # <<>>
    /\ len(text) <= LIMIT
    /\ \E result \in PostResults :
          \E o \in {requests_post(out, text, result)} :
              PostStep(IF o.at = "raised" THEN o ELSE [o EXCEPT !.at = "returned"])

\* lines 127-130
StartSplit ==
    /\ out.at = "start"
    /\ text # <<>>
    /\ len(text) > LIMIT
    /\ PostStep([out EXCEPT !.at = "loop", !.lines = split(text),
                            !.current_chunk = <<>>])

\* a restart of the chunk that leaves the line out
SendChunk_losing_line ==
    /\ out.at = "loop"
    /\ out.i < Len(out.lines)
    /\ \E line \in {out.lines[out.i + 1]} :
          /\ len(out.current_chunk) + len(line) + 1 > LIMIT
          /\ \E result \in PostResults :
                \E o \in {requests_post(out, out.current_chunk, result)} :
                    PostStep(IF o.at = "raised" THEN o
                             ELSE [o EXCEPT !.current_chunk = <<>>,
                                            !.i = @ + 1])

\* lines 132-143: the line does not fit; the chunk is sent and restarted
\* with the line
SendChunk ==
    /\ out.at = "loop"
    /\ out.i < Len(out.lines)
    /\ \E line \in {out.lines[out.i + 1]} :
          /\ len(out.current_chunk) + len(line) + 1 > LIMIT
          /\ \E result \in PostResults :
                \E o \in {requests_post(out, out.current_chunk, result)} :
                    PostStep(IF o.at = "raised" THEN o
                             ELSE [o EXCEPT !.current_chunk = line \o <<NL>>,
                                            !.i = @ + 1])

\* lines 132-134 and 144-146: the line is added to the chunk
AddLine ==
    /\ out.at = "loop"
    /\ out.i < Len(out.lines)
    /\ \E line \in {out.lines[out.i + 1]} :
          /\ ~(len(out.current_chunk) + len(line) + 1 > LIMIT)
          /\ PostStep([out EXCEPT !.current_chunk = @ \o line \o <<NL>>,
                                  !.i = @ + 1])

\* lines 148-153
SendRemaining ==
    /\ out.at = "loop"
    /\ out.i = Len(out.lines)
    /\ IF out.current_chunk # <<>>
       THEN \E result \in PostResults :
               \E o \in {requests_post(out, out.current_chunk, result)} :
                   PostStep(IF o.at = "raised" THEN o
                            ELSE [o EXCEPT !.at = "returned"])
       ELSE PostStep([out EXCEPT !.at = "returned"])

NextPost ==
    \/ ReturnEmpty
    \/ PostSingle
    \/ StartSplit
    \/ SendChunk
    \/ AddLine
    \/ SendRemaining

SpecPost == InitPost /\ [][NextPost]_vars

----------------------------------------------------------------------------
(* post_to_discord: what is sent *)

Messages == {out.posts[k] : k \in 1..Len(out.posts)}

\* the content was longer than LIMIT and has been split, line 129
Splitting == out.at # "start" /\ len(text) > LIMIT

\* C23: every message post_to_discord sends has at most 2000 characters,
\* also when one line of the content is longer than that.
C23_EveryMessageWithinLimit == \A msg \in Messages : len(msg) <= LIMIT

\* the lines ls, each followed by a newline
Joined(ls) == Concat([k \in 1..Len(ls) |-> ls[k] \o <<NL>>])

IsNL(r) == r = NL

\* the number of lines in a chunk
LineCount(s) == Len(SelectSeq(s, IsNL))

RECURSIVE LinesBefore(_)
\* the number of lines in the first k messages
LinesBefore(k) == IF k = 0 THEN 0 ELSE LinesBefore(k - 1) + LineCount(out.posts[k])

\* C24: when the content is split, the chunks are posted one after the
\* other; each chunk is whole lines of the content, each followed by a
\* newline, starting at the line after the last line of the chunk before
\* it; what has been posted and what is held is the lines read so far, and
\* when post_to_discord returns what has been posted is all the lines.
C24_ChunksInOrder ==
    /\ [](Splitting =>
            /\ out.lines = split(text)
            /\ \A k \in 1..Len(out.posts) :
                  out.posts[k] =
                      Joined(SubSeq(out.lines, LinesBefore(k - 1) + 1, LinesBefore(k)))
            /\ out.at = "loop" =>
                  Concat(out.posts) \o out.current_chunk =
                      Joined(SubSeq(out.lines, 1, out.i))
            /\ out.at = "returned" => Concat(out.posts) = Joined(split(text)))
    /\ [][\/ out'.posts = out.posts
          \/ \E msg \in {out.current_chunk, text} : out'.posts = Append(out.posts, msg)]_vars

C24_Witness ==
    /\ Splitting
    /\ out.at = "returned"
    /\ Len(out.lines) >= 3
    /\ Len(out.posts) >= 2
    /\ \A k \in 1..Len(out.posts) : out.posts[k] # <<>>
    /\ Concat(out.posts) = Joined(split(text))

\* C25: post_to_discord never posts an empty message, also when the first
\* line alone is over the limit while the chunk is still empty.
C25_NoEmptyMessage == <<>> \notin Messages

----------------------------------------------------------------------------
(* The cursor at the draws of the line loop *)

\* C26: every text the line loop draws has its baseline between the bottom
\* margin and the top of the text area, margin_bottom <= y <= page_height -
\* margin_top, and a headline segment has its baseline at least rect_h
\* above the bottom margin, whatever lines came before, blank lines, which
\* lower the cursor without a page check, included.
C26_TextWithinMargins ==
    \A j \in TextOpsOfLine :
        /\ margin_bottom <= ops[j].y
        /\ ops[j].y <= page_height - margin_top
        /\ block = "Headline" => ops[j].y - rect_h >= margin_bottom

\* the line was read with the cursor under the bottom margin, and its text
\* is at the top of a new page
C26_Witness ==
    /\ y_in < margin_bottom
    /\ \E j \in TextOpsOfLine : ops[j].broke /\ ops[j].y = page_height - margin_top

\* a headline segment that had its baseline above the bottom margin and
\* less than rect_h of room is on a new page
C26_WitnessHeadline ==
    /\ block = "Headline"
    /\ \E j \in TextOpsOfLine :
          /\ ops[j].broke
          /\ ops[j].y_check >= margin_bottom
          /\ ops[j].y_check - rect_h < margin_bottom
          /\ ops[j].y = page_height - margin_top

----------------------------------------------------------------------------
(* Pages *)

\* the page breaks of the current line
PageBreaks == {j \in DOMAIN ops : ops[j].op = "showPage"}

IsDraw(o) == o.op \in {"text", "rect", "image"}

\* C27: every page of the document has a draw on it and the document has
\* one page more than there were page breaks.  The first page has the
\* header; a page break of the line loop closes the page that was open
\* and is followed, before the next break and before the line ends, by a
\* draw on the new page; the pages closed are the page breaks of the lines
\* and, once, the last page at the end of the document.
C27_PagesHaveDraws ==
    /\ \E h \in DOMAIN header : IsDraw(header[h]) /\ header[h].page = 0
    /\ page = page_in + Cardinality(PageBreaks) + (IF pc = "done" THEN 1 ELSE 0)
    /\ \A j \in PageBreaks :
          ops[j].page = page_in + Cardinality({g \in PageBreaks : g < j})
    /\ pc # "aborted" =>
          \A j \in PageBreaks :
              \E h \in (j + 1)..Len(ops) :
                  /\ IsDraw(ops[h])
                  /\ ops[h].page = ops[j].page + 1
                  /\ \A g \in (j + 1)..h : g \notin PageBreaks

\* a document of three pages: a line that broke the page, after an earlier
\* break, and the end of the document
C27_Witness ==
    /\ pc = "done"
    /\ page = 3
    /\ page_in = 1
    /\ Cardinality(PageBreaks) = 1

----------------------------------------------------------------------------
(* Fill colour *)

\* C28: the fill colour is black when the loop starts on a line: the
\* sources heading, a headline and a sources bullet set other colours and
\* set black again before they are done, also when they break the page.
C28_FillBlackBetweenLines == pc \in {"loop", "done"} => fill = "black"

\* a headline of two segments or more that broke the page after its first
\* segment, with the colour of the text set
C28_Witness ==
    /\ pc = "loop"
    /\ block = "Headline"
    /\ \E j \in TextOpsOfLine : ops[j].k >= 2 /\ ops[j].broke
    /\ fill = "black"

\* a sources bullet drawn in its own colour on a new page
C28_WitnessSources ==
    /\ pc = "loop"
    /\ block = "BulletLink"
    /\ in_sources_section
    /\ \E j \in TextOpsOfLine : ops[j].broke
    /\ fill = "black"

----------------------------------------------------------------------------
(* Lines with emphasis markers and nothing to emphasise *)

\* the input lines that are not blank and no rule
NonBlankLines == {i \in 1..NLines : strip(Lines[i]) \notin {<<>>, <<"-", "-", "-">>}}

\* the input lines, blank lines and rules left out, that contain "**" and
\* whose label is empty once the pairs are removed and the rest trimmed
EmptyLabel ==
    {i \in Marked \cap NonBlankLines :
        /\ HasEmphasisPair(Lines[i])
        /\ strip(BoldSub(Lines[i], 0)) = <<>>}

\* the texts of the draws of the current line, in order
DrawnTexts == [k \in 1..Len(TextOpSeq) |-> Layout[cur].draws[TextOpSeq[k].k].s]

\* C29: a line that is not blank, contains "**" and has an empty label is
\* not skipped and is no Headline: the bullet and paragraph rules take it
\* and draw its text as it is, markers included.  Every line that is not
\* blank and no rule draws something.
C29_EmptyLabelIsDrawnRaw ==
    cur > 0 =>
        /\ cur \in EmptyLabel =>
              /\ block \in {"BulletLink", "BulletPlain", "Paragraph"}
              /\ RectOps = {}
              /\ DrawnTexts # <<>>
              /\ block = "Paragraph" => DrawnTexts = WrappedLines[cur]
              /\ Contains(Concat(DrawnTexts), <<"*", "*">>)
        /\ (cur \in NonBlankLines /\ pc # "aborted") =>
              \E j \in DOMAIN ops : ops[j].op \in {"text", "rect", "image"}

C29_Witness ==
    /\ cur \in EmptyLabel
    /\ block = "Paragraph"
    /\ DrawnTexts = <<Lines[cur]>>

----------------------------------------------------------------------------
(* SpecHazards: the hazards table of build_stylish_pdf in daily_briefing   *)
(* (lines 570-597) and in daily_briefing_openai (lines 499-532), built     *)
(* from every list of at most MaxHazards hazards of at most MaxHazardLen   *)
(* characters.                                                             *)

MaxHazards == 2

MaxHazardLen == 3

HazardChars == {"a", ":", " "}

RECURSIVE HazardTexts(_)
HazardTexts(n) ==
    IF n = 0 THEN {<<>>}
    ELSE LET shorter == HazardTexts(n - 1)
         IN  shorter \cup {s \o <<ch>> : s \in shorter, ch \in HazardChars}

RECURSIVE HazardLists(_)
HazardLists(n) ==
    IF n = 0 THEN {<<>>}
    ELSE LET shorter == HazardLists(n - 1)
         IN  shorter \cup {l \o <<h>> : l \in shorter, h \in HazardTexts(MaxHazardLen)}

\* Python's ":" in h
HasColon(h) == \E k \in 1..Len(h) : h[k] = ":"

FirstColon(h) == CHOOSE k \in 1..Len(h) : h[k] = ":" /\ \A j \in 1..(k - 1) : h[j] # ":"

\* Python's h.split(":")
RECURSIVE split_colon(_)
split_colon(h) ==
    IF ~HasColon(h) THEN <<h>>
    ELSE <<SubSeq(h, 1, FirstColon(h) - 1)>>
         \o split_colon(SubSeq(h, FirstColon(h) + 1, Len(h)))

\* Python's h.split(":", 1)
split_colon_once(h) ==
    IF ~HasColon(h) THEN <<h>>
    ELSE <<SubSeq(h, 1, FirstColon(h) - 1), SubSeq(h, FirstColon(h) + 1, Len(h))>>

\* Paragraph(f"<b>{head}</b>", style_body)
BoldCell(head) == <<"<b>">> \o head \o <<"</b>">>

\* a row that cuts the hazard at its first colon only
HazardRow_first_colon(h) ==
    IF HasColon(h)
    THEN [raised |-> FALSE,
          row |-> <<BoldCell(split_colon_once(h)[1]), split_colon_once(h)[2]>>]
    ELSE [raised |-> FALSE, row |-> << <<>>, h >>]

\* daily_briefing, lines 575-586: `[head, body] = h.split(":")` raises
\* ValueError unless the split has two parts
HazardRow(h) ==
    IF HasColon(h)
    THEN IF Len(split_colon(h)) # 2 THEN [raised |-> TRUE, row |-> <<>>]
         ELSE [raised |-> FALSE,
               row |-> <<BoldCell(split_colon(h)[1]), split_colon(h)[2]>>]
    ELSE [raised |-> FALSE, row |-> << <<>>, h >>]

\* daily_briefing_openai, lines 503-517
HazardRow_openai(h) ==
    IF HasColon(h)
    THEN [raised |-> FALSE,
          row |-> <<BoldCell(split_colon_once(h)[1]), strip(split_colon_once(h)[2])>>]
    ELSE [raised |-> FALSE, row |-> << <<>>, h >>]

\* daily_briefing, lines 570-597: the table, or the paragraph that says
\* there are no hazards, or the exception of the first row that raises
build_hazards(hazards) ==
    LET rows == [k \in 1..Len(hazards) |-> HazardRow(hazards[k])]
    IN  IF hazards = <<>> THEN [raised |-> FALSE, table |-> <<>>, none |-> TRUE]
        ELSE IF \E k \in 1..Len(rows) : rows[k].raised
             THEN [raised |-> TRUE, table |-> <<>>, none |-> FALSE]
        ELSE [raised |-> FALSE, none |-> FALSE,
              table |-> [k \in 1..Len(rows) |-> rows[k].row]]

\* daily_briefing_openai, lines 499-532
build_hazards_openai(hazards) ==
    LET rows == [k \in 1..Len(hazards) |-> HazardRow_openai(hazards[k])]
    IN  IF hazards = <<>> THEN [raised |-> FALSE, table |-> <<>>, none |-> TRUE]
        ELSE [raised |-> FALSE, none |-> FALSE,
              table |-> [k \in 1..Len(rows) |-> rows[k].row]]

NotBuilt == [op |-> "none"]

InitHazards ==
    /\ RenderIdle
    /\ text \in HazardLists(MaxHazards)
    /\ out = [daily_briefing |-> NotBuilt, daily_briefing_openai |-> NotBuilt]

\* build_stylish_pdf of daily_briefing is called with the hazards
BuildDailyBriefing ==
    /\ out.daily_briefing = NotBuilt
    /\ out' = [out EXCEPT !.daily_briefing = build_hazards(text)]
    /\ UNCHANGED <<text, renderVars>>

\* build_stylish_pdf of daily_briefing_openai is called with the hazards
BuildDailyBriefingOpenAI ==
    /\ out.daily_briefing_openai = NotBuilt
    /\ out' = [out EXCEPT !.daily_briefing_openai = build_hazards_openai(text)]
    /\ UNCHANGED <<text, renderVars>>

NextHazards == BuildDailyBriefing \/ BuildDailyBriefingOpenAI

SpecHazards == InitHazards /\ [][NextHazards]_vars

BothBuilt == out.daily_briefing # NotBuilt /\ out.daily_briefing_openai # NotBuilt

\* a table as it is laid out: a Paragraph shows its text without the
\* blanks around it
LaidOut(table) ==
    [k \in 1..Len(table) |-> <<strip(table[k][1]), strip(table[k][2])>>]

\* C30: for every list of hazards the two build_stylish_pdf make the same
\* hazards table, one row for each hazard, a hazard with a colon cut into
\* head and body at its first colon, and neither raises, whatever the
\* number of colons in a hazard.
C30_SameHazardsTable ==
    BothBuilt =>
        /\ ~out.daily_briefing.raised
        /\ ~out.daily_briefing_openai.raised
        /\ LaidOut(out.daily_briefing.table) = LaidOut(out.daily_briefing_openai.table)
        /\ Len(out.daily_briefing.table) = Len(text)
        /\ \A k \in 1..Len(text) :
              LaidOut(out.daily_briefing.table)[k] =
                  LaidOut(<<HazardRow_first_colon(text[k]).row>>)[1]

====
